---- MODULE Spec2Model ----
(***************************************************************************)
(* A model of the ssdp crate: the message codec (SSDPMessage::from_packet  *)
(* and the NotifyMessage / SearchRequest / SearchResponse wrappers) and    *)
(* the typed header codecs (encode / decode of each header kind), the      *)
(* receiver that turns the datagrams of several sockets into one sequence, *)
(* the unicast send loops of SearchRequest and SearchResponse, the setup   *)
(* of a search and of listening, the interface filter, SSDPMessage::send,  *)
(* the HTTPU serializer with its packet buffer, the UdpSender, and the     *)
(* header collection of a message under HeaderMut::set.                    *)
(*                                                                         *)
(* A datagram is a sequence of bytes; a byte is a one-character string,    *)
(* with "CR" and "LF" standing for the bytes 13 and 10.                    *)
(***************************************************************************)
EXTENDS Integers, Sequences, FiniteSets, TLC

VARIABLES
    shape,      \* how the datagram under test was put together (codec)
    packet,     \* the datagram handed to from_packet (codec)
    call,       \* which from_packet entry point has run, "none" before (codec)
    result,     \* what that entry point returned (codec)
    hpc,        \* position of the header round trip: typed / raw / encoded / decoded
    header,     \* the typed header value given to encode
    wire,       \* the header values on the wire (output of encode, input of decode)
    decoded,    \* what decode returned
    origin,     \* which entry point built the receiver: unicast / multicast / listen
    arrived,    \* per socket, the datagrams the network delivers to it, in order
    taken,      \* per socket, how many of them its reader has received
    hand,       \* per socket, the datagram its reader holds between receive and hand-off
    queue,      \* the single hand-off queue from the readers to the consumer
    yielded,    \* the items the consumer's sequence has produced so far
    deadline,   \* the receiver's optional deadline, in seconds
    now,        \* seconds since the receiver was built
    ended,      \* whether the consumer's sequence has reported its end
    unicast,    \* a unicast call: the message kind, each interface's send outcome,
                \* the loop position, the counters, the value returned
    search,     \* a search being set up: entry point, MX, sockets made, datagrams out
    sending,    \* an SSDPMessage::send call: kind, destination, stream, result
    netifs,     \* map_local: the discovered addresses, the position, the kept ones
    listener,   \* listen_with_config: interfaces, sockets bound, joins made, result
    sender,     \* a UdpSender: its buffer, and the datagrams it has transmitted
    pbuf,       \* a PacketBuffer under write / clear / serialize, and the last return
    hmap        \* an SSDPMessage under HeaderMut::set: its header collection

vars ==
    <<shape, packet, call, result, hpc, header, wire, decoded,
      origin, arrived, taken, hand, queue, yielded, deadline, now, ended, unicast,
      search, sending, netifs, listener, sender, pbuf, hmap>>
codecVars == <<shape, packet, call, result>>
headerVars == <<hpc, header, wire, decoded>>
receiverVars == <<origin, arrived, taken, hand, queue, yielded, deadline, now, ended>>

\* no receiver has been built
IdleReceiver ==
    /\ origin = "none"
    /\ arrived = <<>> /\ taken = <<>> /\ hand = <<>>
    /\ queue = <<>> /\ yielded = <<>>
    /\ deadline = [some |-> FALSE]
    /\ now = 0
    /\ ended = FALSE

\* no unicast call has been made
IdleUnicast == unicast = [op |-> "none"]

ioVars == <<search, sending, netifs, listener, sender, pbuf, hmap>>

\* nothing else is in progress
IdleIO ==
    /\ search = [op |-> "none"]
    /\ sending = [op |-> "none"]
    /\ netifs = [op |-> "none"]
    /\ listener = [op |-> "none"]
    /\ sender = [op |-> "none"]
    /\ pbuf = [op |-> "none"]
    /\ hmap = [op |-> "none"]

----------------------------------------------------------------------------
(* Bytes *)

CR == "CR"
LF == "LF"
SP == " "
CRLF == <<CR, LF>>

UpperSeq == <<"A","B","C","D","E","F","G","H","I","J","K","L","M",
              "N","O","P","Q","R","S","T","U","V","W","X","Y","Z">>
LowerSeq == <<"a","b","c","d","e","f","g","h","i","j","k","l","m",
              "n","o","p","q","r","s","t","u","v","w","x","y","z">>
DigitSeq == <<"0","1","2","3","4","5","6","7","8","9">>

Upper == {UpperSeq[i] : i \in 1..26}
Lower == {LowerSeq[i] : i \in 1..26}
Digit == {DigitSeq[i] : i \in 1..10}

\* u8::to_ascii_lowercase, as applied by HeaderName::from_bytes
ToLowerByte(b) ==
    IF b \in Upper THEN LowerSeq[CHOOSE i \in 1..26 : UpperSeq[i] = b] ELSE b

ToLower(s) == [i \in 1..Len(s) |-> ToLowerByte(s[i])]

\* char::to_ascii_uppercase, as applied by str::to_uppercase on ASCII
ToUpperByte(b) ==
    IF b \in Lower THEN UpperSeq[CHOOSE i \in 1..26 : LowerSeq[i] = b] ELSE b

ToUpper(s) == [i \in 1..Len(s) |-> ToUpperByte(s[i])]

DigitVal(b) == (CHOOSE i \in 1..10 : DigitSeq[i] = b) - 1

\* bytes[from..] of a slice
Tail_(s, from) == SubSeq(s, from, Len(s))

StartsWith(s, p) == Len(s) >= Len(p) /\ SubSeq(s, 1, Len(p)) = p

----------------------------------------------------------------------------
(* The httparse parser, as SSDPMessage::from_packet drives it *)

\* RFC 7230 token bytes: method and header-name bytes
is_token(b) ==
    b \in Upper \cup Lower \cup Digit \cup
          {"!", "#", "$", "%", "&", "*", "+", "-", ".", "_", "|", "~"}

\* bytes of a request target
is_uri_token(b) ==
    b \in Upper \cup Lower \cup Digit \cup
          {"!", "#", "$", "%", "&", "*", "+", "-", ".", "_", "~",
           "/", ":", ";", "=", "?", "@", ","}

\* bytes of a header value or a reason phrase: anything but a control byte
is_header_value_token(b) == b \notin {CR, LF}

Partial == [st |-> "Partial"]
ParseError(e) == [st |-> "Error", err |-> e]

(* A parse in progress is a record p: p.pos is the cursor into the bytes b,
   and method, path, version, code, headers are the fields of the
   Request / Response filled so far.  Each step hands on a Partial or an
   Error of the step before it (the ? and complete! of the parser). *)

\* skip_empty_lines: CRLF or bare LF lines before the start line are skipped
RECURSIVE skip_empty_lines(_, _)
skip_empty_lines(b, i) ==
    IF i > Len(b) THEN Partial
    ELSE IF b[i] = CR THEN
        IF i + 1 > Len(b) THEN Partial
        ELSE IF b[i + 1] = LF THEN skip_empty_lines(b, i + 2)
        ELSE ParseError("NewLine")
    ELSE IF b[i] = LF THEN skip_empty_lines(b, i + 1)
    ELSE [st |-> "Complete", pos |-> i, method |-> <<>>, path |-> <<>>,
          version |-> 0, code |-> 0, headers |-> <<>>]

\* the rest of a token after its first byte, up to and including the space
RECURSIVE token_rest(_, _, _)
token_rest(b, p, i) ==
    IF i > Len(b) THEN Partial
    ELSE IF b[i] = SP THEN
        [p EXCEPT !.pos = i + 1, !.method = SubSeq(b, p.pos, i - 1)]
    ELSE IF ~is_token(b[i]) THEN ParseError("Token")
    ELSE token_rest(b, p, i + 1)

\* parse_token: the method, a non-empty run of token bytes ended by a space
parse_token(b, p) ==
    IF p.st # "Complete" THEN p
    ELSE IF p.pos > Len(b) THEN Partial
    ELSE IF ~is_token(b[p.pos]) THEN ParseError("Token")
    ELSE token_rest(b, p, p.pos + 1)

RECURSIVE uri_end(_, _)
uri_end(b, i) ==
    IF i <= Len(b) /\ is_uri_token(b[i]) THEN uri_end(b, i + 1) ELSE i

\* parse_uri: the target, a non-empty run of uri bytes ended by a space
parse_uri(b, p) ==
    IF p.st # "Complete" THEN p ELSE
    LET e == uri_end(b, p.pos) IN
    IF e > Len(b) THEN Partial
    ELSE IF b[e] = SP THEN
        IF e = p.pos THEN ParseError("Token")
        ELSE [p EXCEPT !.pos = e + 1, !.path = SubSeq(b, p.pos, e - 1)]
    ELSE ParseError("Token")

HTTP10 == <<"H","T","T","P","/","1",".","0">>
HTTP11 == <<"H","T","T","P","/","1",".","1">>
HTTP1Dot == <<"H","T","T","P","/","1",".">>

\* parse_version: exactly "HTTP/1.0" or "HTTP/1.1"; with fewer than eight
\* bytes left, Partial as long as they are a prefix of "HTTP/1."
parse_version(b, p) ==
    IF p.st # "Complete" THEN p
    ELSE IF p.pos + 7 <= Len(b) THEN
        IF SubSeq(b, p.pos, p.pos + 7) = HTTP10
        THEN [p EXCEPT !.pos = @ + 8, !.version = 0]
        ELSE IF SubSeq(b, p.pos, p.pos + 7) = HTTP11
        THEN [p EXCEPT !.pos = @ + 8, !.version = 1]
        ELSE ParseError("Version")
    ELSE
        IF \A k \in 1..7 : p.pos + k - 1 <= Len(b) => b[p.pos + k - 1] = HTTP1Dot[k]
        THEN Partial
        ELSE ParseError("Version")

\* newline!: CRLF or a bare LF
newline(b, p, e) ==
    IF p.st # "Complete" THEN p
    ELSE IF p.pos > Len(b) THEN Partial
    ELSE IF b[p.pos] = CR THEN
        IF p.pos + 1 > Len(b) THEN Partial
        ELSE IF b[p.pos + 1] = LF THEN [p EXCEPT !.pos = @ + 2]
        ELSE ParseError(e)
    ELSE IF b[p.pos] = LF THEN [p EXCEPT !.pos = @ + 1]
    ELSE ParseError(e)

\* the header name: token bytes up to the colon
RECURSIVE header_name_end(_, _)
header_name_end(b, i) ==
    IF i <= Len(b) /\ is_token(b[i]) THEN header_name_end(b, i + 1) ELSE i

\* whitespace between the colon and the value
RECURSIVE skip_ws(_, _)
skip_ws(b, i) ==
    IF i <= Len(b) /\ b[i] \in {SP, "TAB"} THEN skip_ws(b, i + 1) ELSE i

RECURSIVE value_end(_, _)
value_end(b, i) ==
    IF i <= Len(b) /\ is_header_value_token(b[i]) THEN value_end(b, i + 1) ELSE i

\* trailing spaces and tabs are trimmed from a header value
RECURSIVE trim_end(_)
trim_end(s) ==
    IF Len(s) > 0 /\ s[Len(s)] \in {SP, "TAB"}
    THEN trim_end(SubSeq(s, 1, Len(s) - 1))
    ELSE s

\* one header line starting at i: name ":" OWS value OWS (CRLF | LF)
parse_header_line(b, i) ==
    LET ne == header_name_end(b, i) IN
    IF ne > Len(b) THEN Partial
    ELSE IF b[ne] # ":" THEN ParseError("HeaderName")
    ELSE
        LET vs == skip_ws(b, ne + 1)
            ve == value_end(b, vs) IN
        IF ve > Len(b) THEN Partial
        ELSE IF b[ve] = CR THEN
            IF ve + 1 > Len(b) THEN Partial
            ELSE IF b[ve + 1] = LF THEN
                [st |-> "Complete", pos |-> ve + 2,
                 hdr |-> [name |-> SubSeq(b, i, ne - 1),
                          value |-> trim_end(SubSeq(b, vs, ve - 1))]]
            ELSE ParseError("HeaderValue")
        ELSE \* b[ve] = LF
            [st |-> "Complete", pos |-> ve + 1,
             hdr |-> [name |-> SubSeq(b, i, ne - 1),
                      value |-> trim_end(SubSeq(b, vs, ve - 1))]]

\* parse_headers_iter: header lines up to the empty line; a line that starts
\* when the header buffer (max slots) is full is TooManyHeaders
RECURSIVE parse_headers(_, _, _)
parse_headers(b, p, max) ==
    IF p.st # "Complete" THEN p
    ELSE IF p.pos > Len(b) THEN Partial
    ELSE IF b[p.pos] = CR THEN
        IF p.pos + 1 > Len(b) THEN Partial
        ELSE IF b[p.pos + 1] = LF THEN [p EXCEPT !.pos = @ + 2]
        ELSE ParseError("NewLine")
    ELSE IF b[p.pos] = LF THEN [p EXCEPT !.pos = @ + 1]
    ELSE IF ~is_token(b[p.pos]) THEN ParseError("HeaderName")
    ELSE IF Len(p.headers) >= max THEN ParseError("TooManyHeaders")
    ELSE
        LET h == parse_header_line(b, p.pos) IN
        IF h.st # "Complete" THEN h
        ELSE parse_headers(b, [p EXCEPT !.pos = h.pos, !.headers = Append(@, h.hdr)],
                           max)

\* Request::parse: method SP target SP version newline headers.
\* pos - 1 is the number of bytes consumed (Status::Complete(n)).
parse_request(b, max) ==
    parse_headers(b,
        newline(b,
            parse_version(b,
                parse_uri(b,
                    parse_token(b,
                        skip_empty_lines(b, 1)))),
            "NewLine"),
        max)

\* the space after the version and parse_code: exactly three digits
parse_code(b, p) ==
    IF p.st # "Complete" THEN p
    ELSE IF p.pos > Len(b) THEN Partial
    ELSE IF b[p.pos] # SP THEN ParseError("Version")
    ELSE IF \E k \in 1..3 : p.pos + k <= Len(b) /\ b[p.pos + k] \notin Digit
                            /\ \A j \in 1..(k - 1) : b[p.pos + j] \in Digit
    THEN ParseError("Status")
    ELSE IF p.pos + 3 > Len(b) THEN Partial
    ELSE [p EXCEPT !.pos = @ + 4,
                   !.code = 100 * DigitVal(b[p.pos + 1]) + 10 * DigitVal(b[p.pos + 2])
                            + DigitVal(b[p.pos + 3])]

\* the reason phrase: a space and text up to the line end, or the line end
parse_reason(b, p) ==
    IF p.st # "Complete" THEN p
    ELSE IF p.pos > Len(b) THEN Partial
    ELSE IF b[p.pos] = SP THEN
        newline(b, [p EXCEPT !.pos = value_end(b, p.pos + 1)], "Status")
    ELSE IF b[p.pos] \in {CR, LF} THEN newline(b, p, "Status")
    ELSE ParseError("Status")

\* Response::parse: version SP code [SP reason] newline headers
parse_response(b, max) ==
    parse_headers(b,
        parse_reason(b,
            parse_code(b,
                parse_version(b,
                    skip_empty_lines(b, 1)))),
        max)

----------------------------------------------------------------------------
(* Errors and results *)

Ok(v) == [ok |-> TRUE, val |-> v]
Err(e) == [ok |-> FALSE, err |-> e]

PartialHttp == [kind |-> "PartialHttp"]
InvalidHttpVersion == [kind |-> "InvalidHttpVersion"]
ResponseCode(code) == [kind |-> "ResponseCode", code |-> code]
InvalidMethod(method) == [kind |-> "InvalidMethod", text |-> method]
InvalidUri(uri) == [kind |-> "InvalidUri", text |-> uri]
InvalidBodyForMethod(method) == [kind |-> "InvalidBodyForMethod", text |-> method]
MissingHeader(name) == [kind |-> "MissingHeader", text |-> name]
InvalidHeader(name) == [kind |-> "InvalidHeader", text |-> name]

\* the `?` conversion of an httparse::Error: the malformed-wire-bytes error
SSDPError_from_httparse(e) == [kind |-> "InvalidHttp", parse |-> e]

----------------------------------------------------------------------------
(* The header collection (headers::HeaderMap): one value per lower-case name *)

HeaderMap_new == <<>>

HeaderMap_contains(map, key) == \E i \in 1..Len(map) : map[i].name = key

HeaderMap_get(map, key) ==
    (CHOOSE i \in 1..Len(map) : map[i].name = key)

\* an insert that left an existing name with the value it had
HeaderMap_insert_KeepFirst(map, key, value) ==
    IF HeaderMap_contains(map, key)
    THEN map
    ELSE Append(map, [name |-> key, value |-> value])

\* insert replaces the value of an existing name and appends a new name
HeaderMap_insert(map, key, value) ==
    IF HeaderMap_contains(map, key)
    THEN [i \in 1..Len(map) |->
            IF map[i].name = key THEN [name |-> key, value |-> value] ELSE map[i]]
    ELSE Append(map, [name |-> key, value |-> value])

\* a HeaderName::from_bytes that kept the case of the wire
HeaderName_from_bytes_KeepCase(name) ==
    IF Len(name) > 0 /\ \A i \in 1..Len(name) : is_token(name[i])
    THEN Ok(name)
    ELSE Err("InvalidHeaderName")

\* HeaderName::from_bytes: a non-empty run of token bytes, stored lower-case
HeaderName_from_bytes(name) ==
    IF Len(name) > 0 /\ \A i \in 1..Len(name) : is_token(name[i])
    THEN Ok(ToLower(name))
    ELSE Err("InvalidHeaderName")

\* HeaderValue::from_bytes: no control bytes
HeaderValue_from_bytes(value) ==
    IF \A i \in 1..Len(value) : value[i] \notin {CR, LF}
    THEN Ok(value)
    ELSE Err("InvalidHeaderValue")

----------------------------------------------------------------------------
(* SSDPMessage::from_packet *)

VALID_RESPONSE_CODE == 200

NOTIFY_METHOD == <<"N","O","T","I","F","Y">>
SEARCH_METHOD == <<"M","-","S","E","A","R","C","H">>

HOST_NAME == <<"h","o","s","t">>
STAR == <<"*">>
HTTP1 == <<"H","T","T","P","/","1">>

\* the stack buffer of headers and the heap buffer of the retry
InitialHeaderSlots == 32
FallbackHeaderSlots == 4096

validate_http_version(minor) ==
    IF minor # 1 THEN Err(InvalidHttpVersion) ELSE Ok(TRUE)

\* a validate_response_code that let every code from 200 up through
validate_response_code_AtLeast200(code) ==
    IF code < VALID_RESPONSE_CODE THEN Err(ResponseCode(code)) ELSE Ok(TRUE)

validate_response_code(code) ==
    IF code # VALID_RESPONSE_CODE THEN Err(ResponseCode(code)) ELSE Ok(TRUE)

RECURSIVE validate_http_headers_from(_, _, _)
validate_http_headers_from(headers, i, map) ==
    IF i > Len(headers) THEN Ok(map)
    ELSE
        LET key == HeaderName_from_bytes(headers[i].name)
            value == HeaderValue_from_bytes(headers[i].value) IN
        IF ~key.ok THEN Err(InvalidHeader(headers[i].name))
        ELSE IF ~value.ok THEN Err(InvalidHeader(headers[i].name))
        ELSE validate_http_headers_from(headers, i + 1,
                                        HeaderMap_insert(map, key.val, value.val))

validate_http_headers(headers) ==
    validate_http_headers_from(headers, 1, HeaderMap_new)

SSDPMessage(kind, headers) == [method |-> kind, headers |-> headers]

\* a message_from_request that looked at the version last
message_from_request_VersionLast(parts) ==
    LET headers == validate_http_headers(parts.headers) IN
    IF ~headers.ok THEN headers ELSE
    IF ~HeaderMap_contains(headers.val, HOST_NAME) THEN Err(MissingHeader(HOST_NAME)) ELSE
    IF parts.path # STAR THEN Err(InvalidUri(parts.path)) ELSE
    IF parts.method \notin {NOTIFY_METHOD, SEARCH_METHOD}
    THEN Err(InvalidMethod(parts.method)) ELSE
    LET v == validate_http_version(parts.version) IN
    IF ~v.ok THEN v ELSE
    IF parts.method = NOTIFY_METHOD THEN Ok(SSDPMessage("Notify", headers.val))
    ELSE Ok(SSDPMessage("Search", headers.val))

\* a message_from_request that matched the method without regard to case
message_from_request_AnyCaseMethod(parts) ==
    LET v == validate_http_version(parts.version) IN
    IF ~v.ok THEN v ELSE
    LET headers == validate_http_headers(parts.headers) IN
    IF ~headers.ok THEN headers ELSE
    IF ~HeaderMap_contains(headers.val, HOST_NAME) THEN Err(MissingHeader(HOST_NAME)) ELSE
    IF parts.path # STAR THEN Err(InvalidUri(parts.path)) ELSE
    IF ToUpper(parts.method) = NOTIFY_METHOD THEN Ok(SSDPMessage("Notify", headers.val))
    ELSE IF ToUpper(parts.method) = SEARCH_METHOD THEN Ok(SSDPMessage("Search", headers.val))
    ELSE Err(InvalidMethod(parts.method))

\* a message_from_request that matched the method before the target
message_from_request_MethodBeforePath(parts) ==
    LET v == validate_http_version(parts.version) IN
    IF ~v.ok THEN v ELSE
    LET headers == validate_http_headers(parts.headers) IN
    IF ~headers.ok THEN headers ELSE
    IF ~HeaderMap_contains(headers.val, HOST_NAME) THEN Err(MissingHeader(HOST_NAME)) ELSE
    IF parts.method \notin {NOTIFY_METHOD, SEARCH_METHOD}
    THEN Err(InvalidMethod(parts.method)) ELSE
    IF parts.path # STAR THEN Err(InvalidUri(parts.path)) ELSE
    IF parts.method = NOTIFY_METHOD THEN Ok(SSDPMessage("Notify", headers.val))
    ELSE Ok(SSDPMessage("Search", headers.val))

message_from_request(parts) ==
    LET v == validate_http_version(parts.version) IN
    IF ~v.ok THEN v ELSE
    LET headers == validate_http_headers(parts.headers) IN
    IF ~headers.ok THEN headers ELSE
    IF ~HeaderMap_contains(headers.val, HOST_NAME) THEN Err(MissingHeader(HOST_NAME)) ELSE
    IF parts.path # STAR THEN Err(InvalidUri(parts.path)) ELSE
    IF parts.method = NOTIFY_METHOD THEN Ok(SSDPMessage("Notify", headers.val))
    ELSE IF parts.method = SEARCH_METHOD THEN Ok(SSDPMessage("Search", headers.val))
    ELSE Err(InvalidMethod(parts.method))

message_from_response(parts) ==
    LET v == validate_http_version(parts.version) IN
    IF ~v.ok THEN v ELSE
    LET c == validate_response_code(parts.code) IN
    IF ~c.ok THEN c ELSE
    LET headers == validate_http_headers(parts.headers) IN
    IF ~headers.ok THEN headers ELSE
    Ok(SSDPMessage("Response", headers.val))

\* parse with the stack buffer, and once more with the large one on TooManyHeaders
parse_with_fallback_response(bytes) ==
    LET first == parse_response(bytes, InitialHeaderSlots) IN
    IF first.st = "Error" /\ first.err = "TooManyHeaders"
    THEN parse_response(bytes, FallbackHeaderSlots)
    ELSE first

parse_with_fallback_request(bytes) ==
    LET first == parse_request(bytes, InitialHeaderSlots) IN
    IF first.st = "Error" /\ first.err = "TooManyHeaders"
    THEN parse_request(bytes, FallbackHeaderSlots)
    ELSE first

\* the response branch once the status line and headers are parsed
response_from_packet(bytes, response) ==
    IF response.st = "Error" THEN Err(SSDPError_from_httparse(response.err)) ELSE
    IF response.st = "Partial" THEN Err(PartialHttp) ELSE
    LET after_header_count == response.pos - 1 IN
    IF after_header_count > Len(bytes) THEN Err(PartialHttp) ELSE
    LET body == Tail_(bytes, after_header_count + 1) IN
    IF body # <<>> THEN Err(InvalidBodyForMethod(SEARCH_METHOD)) ELSE
    message_from_response(response)

\* a request branch that returned a failed message_result before looking at
\* the body
request_from_packet_ResultFirst(bytes, request) ==
    IF request.st = "Error" THEN Err(SSDPError_from_httparse(request.err)) ELSE
    IF request.st = "Partial" THEN Err(PartialHttp) ELSE
    LET after_header_count == request.pos - 1
        body == Tail_(bytes, after_header_count + 1)
        method == request.method
        message_result == message_from_request(request) IN
    IF ~message_result.ok THEN message_result ELSE
    IF body # <<>> THEN Err(InvalidBodyForMethod(method)) ELSE
    message_result

\* the request branch once the request line and headers are parsed
request_from_packet(bytes, request) ==
    IF request.st = "Error" THEN Err(SSDPError_from_httparse(request.err)) ELSE
    IF request.st = "Partial" THEN Err(PartialHttp) ELSE
    LET after_header_count == request.pos - 1 IN
    IF after_header_count > Len(bytes) THEN Err(PartialHttp) ELSE
    LET body == Tail_(bytes, after_header_count + 1)
        method == request.method
        message_result == message_from_request(request) IN
    IF body # <<>> THEN Err(InvalidBodyForMethod(method)) ELSE
    message_result

from_packet(bytes) ==
    IF StartsWith(bytes, HTTP1)
    THEN response_from_packet(bytes, parse_with_fallback_response(bytes))
    ELSE request_from_packet(bytes, parse_with_fallback_request(bytes))

----------------------------------------------------------------------------
(* The typed wrappers *)

\* a NotifyMessage::from_packet that did not look at the kind
NotifyMessage_from_packet_Unchecked(bytes) == from_packet(bytes)

NotifyMessage_from_packet(bytes) ==
    LET message == from_packet(bytes) IN
    IF ~message.ok THEN message
    ELSE IF message.val.method # "Notify"
    THEN Err(InvalidMethod(<<"SSDP Message Received Is Not A NotifyMessage">>))
    ELSE Ok(message.val)

SearchRequest_from_packet(bytes) ==
    LET message == from_packet(bytes) IN
    IF ~message.ok THEN message
    ELSE IF message.val.method # "Search"
    THEN Err(InvalidMethod(<<"SSDP Message Received Is Not A SearchRequest">>))
    ELSE Ok(message.val)

\* a SearchResponse::from_packet that took a message of any kind
SearchResponse_from_packet_AnyKind(bytes) ==
    LET message == from_packet(bytes) IN
    IF ~message.ok THEN message
    ELSE Ok(message.val)

SearchResponse_from_packet(bytes) ==
    LET message == from_packet(bytes) IN
    IF ~message.ok THEN message
    ELSE IF message.val.method # "Response"
    THEN Err(InvalidMethod(<<"SSDP Message Received Is Not A SearchResponse">>))
    ELSE Ok(message.val)

----------------------------------------------------------------------------
(* The datagrams under test *)

MaxHeaderLines == 2     \* header lines in a datagram
MaxBodyLen == 1         \* bytes after the header block
MaxPrefixHeaders == 1   \* header lines of the messages whose prefixes are tried

HTTP20 == <<"H","T","T","P","/","2",".","0">>

Methods == {NOTIFY_METHOD, SEARCH_METHOD, <<"n","o","t","i","f","y">>,
            <<"m","-","s","e","a","r","c","h">>, <<"G","E","T">>}
Targets == {STAR, <<"/">>}
Versions == {HTTP11, HTTP10, HTTP20}
Codes == {<<"2","0","0">>, <<"4","0","4">>, <<"1","0","0">>}

HeaderLines ==
    {[name |-> <<"H","O","S","T">>, value |-> <<"a">>],
     [name |-> <<"H","o","s","t">>, value |-> <<"a">>],
     [name |-> <<"h","o","s","t">>, value |-> <<"a">>],
     [name |-> <<"N","T">>, value |-> <<"b">>]}

SeqsUpTo(S, n) == UNION {[1..k -> S] : k \in 0..n}

HeaderLists == SeqsUpTo(HeaderLines, MaxHeaderLines)
Bodies == SeqsUpTo({"x"}, MaxBodyLen)

RECURSIVE Concat(_)
Concat(ss) == IF ss = <<>> THEN <<>> ELSE Head(ss) \o Concat(Tail(ss))

RenderLine(h) == h.name \o <<":", SP>> \o h.value \o CRLF

RenderLines(hs) == Concat([i \in 1..Len(hs) |-> RenderLine(hs[i])])

\* the wire format: a request line or a status line, the header lines, an
\* empty line, and whatever follows
Render(s) ==
    (IF s.path = "request"
     THEN s.method \o <<SP>> \o s.target \o <<SP>> \o s.version
     ELSE s.version \o <<SP>> \o s.code \o <<SP, "O", "K">>)
    \o CRLF \o RenderLines(s.headers) \o CRLF \o s.body

HasHost(hs) == \E i \in 1..Len(hs) : ToLower(hs[i].name) = HOST_NAME

\* a well-formed discovery message
WellFormed(s) ==
    /\ s.version = HTTP11
    /\ s.body = <<>>
    /\ IF s.path = "request"
       THEN s.method \in {NOTIFY_METHOD, SEARCH_METHOD} /\ s.target = STAR
            /\ HasHost(s.headers)
       ELSE s.code = <<"2","0","0">>

FullShapes ==
    [path : {"request"}, method : Methods, target : Targets, version : Versions,
     code : {<<"2","0","0">>}, headers : HeaderLists, body : Bodies]
    \cup
    [path : {"response"}, method : {NOTIFY_METHOD}, target : {STAR},
     version : Versions, code : Codes, headers : HeaderLists, body : Bodies]

\* every datagram is tried whole; a well-formed one also cut at every length
CutsOf(s) ==
    IF WellFormed(s) /\ Len(s.headers) <= MaxPrefixHeaders
    THEN 0..Len(Render(s))
    ELSE {Len(Render(s))}

Inputs ==
    UNION {{[msg |-> s, cut |-> c] : c \in CutsOf(s)} : s \in FullShapes}

IdleShape == [msg |-> "none", cut |-> 0]
IdleHeader == [name |-> "none"]

----------------------------------------------------------------------------
(* The codec as a state machine: one datagram, one entry point *)

InitCodec ==
    /\ IdleReceiver /\ IdleUnicast /\ IdleIO
    /\ shape \in Inputs
    /\ packet = SubSeq(Render(shape.msg), 1, shape.cut)
    /\ call = "none"
    /\ result = Err([kind |-> "none"])
    /\ hpc = "idle"
    /\ header = IdleHeader
    /\ wire = <<>>
    /\ decoded = Err("none")

DecodeSSDPMessage ==
    /\ call = "none"
    /\ call' = "SSDPMessage"
    /\ result' = from_packet(packet)
    /\ UNCHANGED <<shape, packet, headerVars, receiverVars, unicast, ioVars>>

DecodeNotifyMessage ==
    /\ call = "none"
    /\ call' = "NotifyMessage"
    /\ result' = NotifyMessage_from_packet(packet)
    /\ UNCHANGED <<shape, packet, headerVars, receiverVars, unicast, ioVars>>

DecodeSearchRequest ==
    /\ call = "none"
    /\ call' = "SearchRequest"
    /\ result' = SearchRequest_from_packet(packet)
    /\ UNCHANGED <<shape, packet, headerVars, receiverVars, unicast, ioVars>>

DecodeSearchResponse ==
    /\ call = "none"
    /\ call' = "SearchResponse"
    /\ result' = SearchResponse_from_packet(packet)
    /\ UNCHANGED <<shape, packet, headerVars, receiverVars, unicast, ioVars>>

NextCodec ==
    \/ DecodeSSDPMessage
    \/ DecodeNotifyMessage
    \/ DecodeSearchRequest
    \/ DecodeSearchResponse

SpecCodec == InitCodec /\ [][NextCodec]_vars

----------------------------------------------------------------------------
(* Header values: HeaderValue, number formatting and parsing *)

\* HeaderValue::from_str: every byte must be a legal header value byte
HeaderValue_from_str(text) ==
    IF \A i \in 1..Len(text) : text[i] \notin {CR, LF}
    THEN Ok(text)
    ELSE Err("InvalidHeaderValue")

\* format!("{}", n) of an unsigned integer: its decimal digits
RECURSIVE ToDecimal(_)
ToDecimal(n) ==
    IF n < 10 THEN <<DigitSeq[n + 1]>>
    ELSE ToDecimal(n \div 10) \o <<DigitSeq[(n % 10) + 1]>>

I32_MIN == -2147483647 - 1
I32_MAX == 2147483647
U8_MAX == 255
U16_MAX == 65535

\* the digits of from_str_radix, most significant first, with checked
\* multiply-and-add (or subtract, for a negative literal)
RECURSIVE accumulate(_, _, _, _, _, _)
accumulate(digits, i, acc, positive, min, max) ==
    IF i > Len(digits) THEN Ok(acc)
    ELSE IF digits[i] \notin Digit THEN Err("InvalidDigit")
    ELSE
        LET d == DigitVal(digits[i]) IN
        IF positive
        THEN IF acc > (max - d) \div 10 THEN Err("PosOverflow")
             ELSE accumulate(digits, i + 1, acc * 10 + d, positive, min, max)
        ELSE IF acc < (min + d + 9) \div 10 THEN Err("NegOverflow")
             ELSE accumulate(digits, i + 1, acc * 10 - d, positive, min, max)

\* <int>::from_str_radix(src, 10): an optional sign (a minus only for a
\* signed type), then at least one digit, within the type's range
from_str_radix(src, signed, min, max) ==
    IF src = <<>> THEN Err("Empty")
    ELSE IF Len(src) = 1 /\ src[1] \in {"+", "-"} THEN Err("InvalidDigit")
    ELSE IF src[1] = "+" THEN accumulate(Tail(src), 1, 0, TRUE, min, max)
    ELSE IF src[1] = "-" /\ signed THEN accumulate(Tail(src), 1, 0, FALSE, min, max)
    ELSE accumulate(src, 1, 0, TRUE, min, max)

i32_from_str_radix(src) == from_str_radix(src, TRUE, I32_MIN, I32_MAX)
u8_from_str_radix(src) == from_str_radix(src, FALSE, 0, U8_MAX)
u16_from_str_radix(src) == from_str_radix(src, FALSE, 0, U16_MAX)

\* headers::Error::invalid()
HeadersError_invalid == Err("invalid")

----------------------------------------------------------------------------
(* FieldMap: the key:value token of NT, ST and USN *)

PAIR_SEPARATOR == ":"

UPnP(v) == [tag |-> "UPnP", key |-> <<>>, value |-> v]
URN(v) == [tag |-> "URN", key |-> <<>>, value |-> v]
UUID(v) == [tag |-> "UUID", key |-> <<>>, value |-> v]
Unknown(k, v) == [tag |-> "Unknown", key |-> k, value |-> v]

UPNP_PREFIX == <<"u","p","n","p">>
URN_PREFIX == <<"u","r","n">>
UUID_PREFIX == <<"u","u","i","d">>

None == [some |-> FALSE]
Some(v) == [some |-> TRUE, val |-> v]

\* the index of the first colon, 0 when there is none
FirstColon(bytes) ==
    IF \E i \in 1..Len(bytes) : bytes[i] = PAIR_SEPARATOR
    THEN CHOOSE i \in 1..Len(bytes) :
            bytes[i] = PAIR_SEPARATOR /\ \A j \in 1..(i - 1) : bytes[j] # PAIR_SEPARATOR
    ELSE 0

\* FieldMap::parse_bytes: split at the first colon; both sides non-empty;
\* the prefix, compared case-insensitively, selects the variant
FieldMap_parse_bytes(bytes) ==
    LET split == FirstColon(bytes) IN
    IF split = 0 THEN None
    ELSE
        LET key == SubSeq(bytes, 1, split - 1)
            value == Tail_(bytes, split + 1) IN
        IF key = <<>> \/ value = <<>> THEN None
        ELSE IF ToLower(key) = UPNP_PREFIX THEN Some(UPnP(value))
        ELSE IF ToLower(key) = URN_PREFIX THEN Some(URN(value))
        ELSE IF ToLower(key) = UUID_PREFIX THEN Some(UUID(value))
        ELSE Some(Unknown(key, value))

\* Display for FieldMap: the canonical prefix (or the stored key), a colon,
\* the payload
FieldMap_to_string(f) ==
    (CASE f.tag = "UPnP" -> UPNP_PREFIX
       [] f.tag = "URN" -> URN_PREFIX
       [] f.tag = "UUID" -> UUID_PREFIX
       [] OTHER -> f.key)
    \o <<PAIR_SEPARATOR>> \o f.value

----------------------------------------------------------------------------
(* The typed headers.  encode yields the list of values it extends the      *)
(* collection with; decode takes the list of values of the header's name.   *)

\* the head of every decode: exactly one value, or invalid
SingleValue(values) ==
    IF Len(values) = 0 THEN HeadersError_invalid
    ELSE IF Len(values) > 1 THEN HeadersError_invalid
    ELSE Ok(values[1])

\* encode of a formatted text: one value, or none when the text is no
\* legal header value (the debug assertion aside)
EncodeText(text) ==
    LET value == HeaderValue_from_str(text) IN
    IF value.ok THEN <<value.val>> ELSE <<>>

(* BootID *)

BootID(n) == [name |-> "BootID", n |-> n]

\* a BootID::decode that parsed into an unsigned 32-bit number
BootID_decode_Unsigned(values) ==
    LET value == SingleValue(values) IN
    IF ~value.ok THEN value ELSE
    LET parsed == from_str_radix(value.val, FALSE, 0, I32_MAX) IN
    IF ~parsed.ok THEN HeadersError_invalid
    ELSE Ok(BootID(parsed.val))

BootID_decode(values) ==
    LET value == SingleValue(values) IN
    IF ~value.ok THEN value ELSE
    LET parsed == i32_from_str_radix(value.val) IN
    IF ~parsed.ok THEN HeadersError_invalid
    ELSE IF parsed.val < 0 THEN HeadersError_invalid
    ELSE Ok(BootID(parsed.val))

BootID_encode(h) == EncodeText(ToDecimal(h.n))

(* ConfigID: decode takes the first value and does not look for a second *)

ConfigID(n) == [name |-> "ConfigID", n |-> n]

ConfigID_decode(values) ==
    IF Len(values) = 0 THEN HeadersError_invalid ELSE
    LET parsed == i32_from_str_radix(values[1]) IN
    IF ~parsed.ok THEN HeadersError_invalid
    ELSE IF parsed.val < 0 THEN HeadersError_invalid
    ELSE Ok(ConfigID(parsed.val))

ConfigID_encode(h) == EncodeText(ToDecimal(h.n))

(* MX *)

MX_HEADER_MIN == 1
MX_HEADER_MAX == 120

MX(n) == [name |-> "MX", n |-> n]

\* an MX::new that forgot the lower bound
MX_new_NoMin(wait_bound) ==
    IF wait_bound > MX_HEADER_MAX
    THEN Err(InvalidHeader(<<"m","x">>))
    ELSE Ok(MX(wait_bound))

MX_new(wait_bound) ==
    IF wait_bound < MX_HEADER_MIN \/ wait_bound > MX_HEADER_MAX
    THEN Err(InvalidHeader(<<"m","x">>))
    ELSE Ok(MX(wait_bound))

\* an MX::decode whose upper bound was exclusive
MX_decode_ExclusiveMax(values) ==
    LET value == SingleValue(values) IN
    IF ~value.ok THEN value ELSE
    LET parsed == u8_from_str_radix(value.val) IN
    IF parsed.ok /\ parsed.val >= MX_HEADER_MIN /\ parsed.val < MX_HEADER_MAX
    THEN Ok(MX(parsed.val))
    ELSE HeadersError_invalid

MX_decode(values) ==
    LET value == SingleValue(values) IN
    IF ~value.ok THEN value ELSE
    LET parsed == u8_from_str_radix(value.val) IN
    IF parsed.ok /\ parsed.val >= MX_HEADER_MIN /\ parsed.val <= MX_HEADER_MAX
    THEN Ok(MX(parsed.val))
    ELSE HeadersError_invalid

MX_encode(h) == EncodeText(ToDecimal(h.n))

(* SearchPort *)

SEARCHPORT_MIN_VALUE == 49152

SearchPort(n) == [name |-> "SearchPort", n |-> n]

\* a SearchPort::decode that parsed 32 bits and kept the low 16
SearchPort_decode_Wrapping(values) ==
    LET value == SingleValue(values) IN
    IF ~value.ok THEN value ELSE
    LET parsed == from_str_radix(value.val, FALSE, 0, I32_MAX) IN
    IF ~parsed.ok THEN HeadersError_invalid
    ELSE IF parsed.val % (U16_MAX + 1) >= SEARCHPORT_MIN_VALUE
    THEN Ok(SearchPort(parsed.val % (U16_MAX + 1)))
    ELSE HeadersError_invalid

SearchPort_decode(values) ==
    LET value == SingleValue(values) IN
    IF ~value.ok THEN value ELSE
    LET parsed == u16_from_str_radix(value.val) IN
    IF ~parsed.ok THEN HeadersError_invalid
    ELSE IF parsed.val >= SEARCHPORT_MIN_VALUE THEN Ok(SearchPort(parsed.val))
    ELSE HeadersError_invalid

SearchPort_encode(h) == EncodeText(ToDecimal(h.n))

(* Man *)

MAN_HEADER_VALUE ==
    <<"\"","s","s","d","p",":","d","i","s","c","o","v","e","r","\"">>

Man == [name |-> "Man"]

Man_decode(values) ==
    LET value == SingleValue(values) IN
    IF ~value.ok THEN value
    ELSE IF value.val = MAN_HEADER_VALUE THEN Ok(Man)
    ELSE HeadersError_invalid

Man_encode(h) == <<MAN_HEADER_VALUE>>

(* NTS *)

ALIVE_HEADER == <<"s","s","d","p",":","a","l","i","v","e">>
UPDATE_HEADER == <<"s","s","d","p",":","u","p","d","a","t","e">>
BYEBYE_HEADER == <<"s","s","d","p",":","b","y","e","b","y","e">>

NTS(v) == [name |-> "NTS", v |-> v]

NTS_decode(values) ==
    LET value == SingleValue(values) IN
    IF ~value.ok THEN value
    ELSE IF value.val = ALIVE_HEADER THEN Ok(NTS("Alive"))
    ELSE IF value.val = UPDATE_HEADER THEN Ok(NTS("Update"))
    ELSE IF value.val = BYEBYE_HEADER THEN Ok(NTS("ByeBye"))
    ELSE HeadersError_invalid

NTS_encode(h) ==
    <<CASE h.v = "Alive" -> ALIVE_HEADER
        [] h.v = "Update" -> UPDATE_HEADER
        [] h.v = "ByeBye" -> BYEBYE_HEADER>>

(* NT *)

NT(field) == [name |-> "NT", field |-> field]

\* an NT::decode that knew only the three reserved prefixes
NT_decode_KnownOnly(values) ==
    LET value == SingleValue(values) IN
    IF ~value.ok THEN value ELSE
    LET n == FieldMap_parse_bytes(value.val) IN
    IF n.some /\ n.val.tag # "Unknown" THEN Ok(NT(n.val)) ELSE HeadersError_invalid

NT_decode(values) ==
    LET value == SingleValue(values) IN
    IF ~value.ok THEN value ELSE
    LET n == FieldMap_parse_bytes(value.val) IN
    IF n.some THEN Ok(NT(n.val)) ELSE HeadersError_invalid

NT_encode(h) == EncodeText(FieldMap_to_string(h.field))

(* ST *)

ST_ALL_VALUE == <<"s","s","d","p",":","a","l","l">>

ST_All == [name |-> "ST", all |-> TRUE, field |-> None]
ST_Target(field) == [name |-> "ST", all |-> FALSE, field |-> Some(field)]

ST_decode(values) ==
    LET value == SingleValue(values) IN
    IF ~value.ok THEN value
    ELSE IF value.val = ST_ALL_VALUE THEN Ok(ST_All)
    ELSE
        LET n == FieldMap_parse_bytes(value.val) IN
        IF n.some THEN Ok(ST_Target(n.val)) ELSE HeadersError_invalid

\* Target unwraps HeaderValue::from_str: an illegal text panics
ST_encode(h) ==
    IF h.all THEN <<ST_ALL_VALUE>>
    ELSE EncodeText(FieldMap_to_string(h.field.val))

(* USN *)

FIELD_PAIR_SEPARATOR == <<":", ":">>

USN(first, second) == [name |-> "USN", first |-> first, second |-> second]

\* the partition closure over the bytes from i on: a byte goes to the first
\* vector until the byte before it and it are "::", later bytes to the second
RECURSIVE partition_from(_, _, _, _, _, _)
partition_from(bytes, i, second_partition, last_byte, first, second) ==
    IF i > Len(bytes) THEN <<first, second>>
    ELSE IF second_partition
    THEN partition_from(bytes, i + 1, TRUE, last_byte, first, Append(second, bytes[i]))
    ELSE partition_from(bytes, i + 1, <<last_byte, bytes[i]>> = FIELD_PAIR_SEPARATOR,
                        bytes[i], Append(first, bytes[i]), second)

\* one pass of the loop that removes a separator from the end of first
pop_separator(first) ==
    IF Len(first) > 0 /\ first[Len(first)] = PAIR_SEPARATOR
    THEN SubSeq(first, 1, Len(first) - 1)
    ELSE first

partition_pairs(bytes) ==
    IF bytes = <<>> THEN None
    ELSE
        LET parts == partition_from(bytes, 1, FALSE, bytes[1], <<>>, <<>>)
            first == pop_separator(pop_separator(parts[1]))
            second == parts[2] IN
        IF first # <<>> /\ second # <<>> THEN Some(<<first, Some(second)>>)
        ELSE IF first # <<>> /\ second = <<>> THEN Some(<<first, None>>)
        ELSE None

USN_decode(values) ==
    LET value == SingleValue(values) IN
    IF ~value.ok THEN value ELSE
    LET pairs == partition_pairs(value.val) IN
    IF ~pairs.some THEN HeadersError_invalid ELSE
    LET first == FieldMap_parse_bytes(pairs.val[1])
        second == IF pairs.val[2].some
                  THEN FieldMap_parse_bytes(pairs.val[2].val)
                  ELSE None IN
    IF first.some THEN Ok(USN(first.val, second)) ELSE HeadersError_invalid

USN_encode(h) ==
    EncodeText(FieldMap_to_string(h.first)
               \o (IF h.second.some
                   THEN FIELD_PAIR_SEPARATOR \o FieldMap_to_string(h.second.val)
                   ELSE <<>>))

\* Header::encode and Header::decode, by header kind
encode(h) ==
    CASE h.name = "BootID" -> BootID_encode(h)
      [] h.name = "ConfigID" -> ConfigID_encode(h)
      [] h.name = "MX" -> MX_encode(h)
      [] h.name = "SearchPort" -> SearchPort_encode(h)
      [] h.name = "Man" -> Man_encode(h)
      [] h.name = "NTS" -> NTS_encode(h)
      [] h.name = "NT" -> NT_encode(h)
      [] h.name = "ST" -> ST_encode(h)
      [] h.name = "USN" -> USN_encode(h)

decode(name, values) ==
    CASE name = "BootID" -> BootID_decode(values)
      [] name = "ConfigID" -> ConfigID_decode(values)
      [] name = "MX" -> MX_decode(values)
      [] name = "SearchPort" -> SearchPort_decode(values)
      [] name = "Man" -> Man_decode(values)
      [] name = "NTS" -> NTS_decode(values)
      [] name = "NT" -> NT_decode(values)
      [] name = "ST" -> ST_decode(values)
      [] name = "USN" -> USN_decode(values)

----------------------------------------------------------------------------
(* The header values under test *)

Payloads ==
    {<<"a">>, <<"a",":","b">>, <<"a",":",":","b">>, <<"a",":">>, <<":","a">>}

FieldTokens ==
    {UPnP(v) : v \in Payloads} \cup {URN(v) : v \in Payloads}
    \cup {UUID(v) : v \in Payloads \cup {<<LF>>}}
    \cup {Unknown(<<"k">>, <<"a">>), Unknown(<<"k">>, <<"a",":",":","b">>),
          Unknown(<<"u","u","i","d">>, <<"a">>), Unknown(<<"u","r","n">>, <<"a">>),
          Unknown(<<"u","p","n","p">>, <<"a">>),
          Unknown(<<"s","s","d","p">>, <<"a","l","l">>)}

IdSamples == {0, 1, 9, 10, 99, 100, 16777215, 2147483646, 2147483647}
PortSamples == {0, 1900, 49151, 49152, 49153, 50000, 59999, 60000, 65534, 65535}

TypedHeaders ==
    {MX(n) : n \in 0..U8_MAX}
    \cup {BootID(n) : n \in IdSamples} \cup {ConfigID(n) : n \in IdSamples}
    \cup {SearchPort(n) : n \in PortSamples}
    \cup {NTS(v) : v \in {"Alive", "Update", "ByeBye"}} \cup {Man}
    \cup {NT(t) : t \in FieldTokens}
    \cup {ST_All} \cup {ST_Target(t) : t \in FieldTokens}
    \cup {USN(t, None) : t \in FieldTokens}
    \cup {USN(t, Some(u)) : t \in FieldTokens, u \in FieldTokens}

----------------------------------------------------------------------------
(* The header codec as a state machine: encode a typed header, decode it *)

InitHeader ==
    /\ IdleReceiver /\ IdleUnicast /\ IdleIO
    /\ hpc = "typed"
    /\ header \in TypedHeaders
    /\ wire = <<>>
    /\ decoded = Err("none")
    /\ shape = IdleShape
    /\ packet = <<>>
    /\ call = "idle"
    /\ result = Err([kind |-> "none"])

\* an encode that has no legal value to give produces nothing, or stops at
\* its debug assertion; ST stops at its unwrap
Encode ==
    /\ hpc = "typed"
    /\ wire' = encode(header)
    /\ hpc' \in (IF wire' # <<>> THEN {"encoded"}
                 ELSE IF header.name = "ST" THEN {"panicked"}
                 ELSE {"encoded", "panicked"})
    /\ UNCHANGED <<header, decoded, codecVars, receiverVars, unicast, ioVars>>

Decode ==
    /\ hpc = "encoded"
    /\ decoded' = decode(header.name, wire)
    /\ hpc' = "decoded"
    /\ UNCHANGED <<header, wire, codecVars, receiverVars, unicast, ioVars>>

NextHeader == Encode \/ Decode

SpecHeader == InitHeader /\ [][NextHeader]_vars

----------------------------------------------------------------------------
(* Decoding values as they come off the wire: the values of one header name *)
(* of a received message, handed to the header's decode                     *)

MaxValues == 2

NumberTexts ==
    {<<>>, <<"0">>, <<"1">>, <<"5">>, <<"+","5">>, <<"0","5">>,
     <<"0","0","7">>, <<"1","2","0">>, <<"0","1","2","0">>, <<"1","2","1">>,
     <<"2","5","5">>, <<"2","5","6">>, <<"3","0","0">>,
     <<"4","2","9","4","9","6","7","2","9","6">>,
     <<"4","2","9","4","9","6","7","2","9","7">>, <<"-","5">>, <<"-","1">>,
     <<"-","0">>, <<"+","0">>, <<"0",".","5">>,
     <<"2","1","4","7","4","8","3","6","4","7">>,
     <<"0","2","1","4","7","4","8","3","6","4","7">>,
     <<"2","1","4","7","4","8","3","6","4","8">>,
     <<"-","2","1","4","7","4","8","3","6","4","8">>,
     <<"-","2","1","4","7","4","8","3","6","4","9">>,
     <<"9","9","9","9","9","9","9","9","9","9">>,
     <<"9","9","9","9","9","9","9","9","9","9","9">>, <<"a","b","c">>,
     <<"1","2","a">>, <<"4","9","1","5","1">>, <<"4","9","1","5","2">>,
     <<"0","4","9","1","5","2">>, <<"6","5","5","3","5">>,
     <<"6","5","5","3","6">>, <<"4","9","1","5","1","a">>,
     <<"1","1","4","6","8","8">>, <<"-","4","9","1","5","2">>,
     <<"+","4","9","1","5","2">>, <<"1"," ">>, <<" ","1">>, <<"-">>, <<"+">>}

LiteralTexts ==
    {<<"\"","s","s","d","p",":","d","i","s","c","o","v","e","r","\"">>,
     <<"s","s","d","p",":","d","i","s","c","o","v","e","r">>,
     <<"s","s","d","p",":","a","l","i","v","e">>,
     <<"s","s","d","p",":","u","p","d","a","t","e">>,
     <<"s","s","d","p",":","b","y","e","b","y","e">>,
     <<"s","s","d","p",":","A","l","i","v","e">>,
     <<"s","s","d","p",":","a","l","l">>,
     <<"S","S","D","P",":","A","L","L">>}

FieldTexts ==
    {<<"u","u","i","d",":","a">>, <<"u","u","i","d",":",":","a">>,
     <<"U","U","I","D",":","a">>, <<"U","r","n",":","a">>,
     <<"u","p","n","p",":","a">>, <<"k",":","a">>, <<":","a">>, <<"a",":">>,
     <<"a">>, <<":">>, <<":",":">>, <<"u","u","i","d",":",":",":">>,
     <<"u","u","i","d",":","a",":",":","b">>,
     <<"u","u","i","d",":","a",":",":","u","r","n",":","b">>,
     <<"u","u","i","d",":","a",":",":",":","u","r","n",":","b">>,
     <<"u","u","i","d",":","a",":">>, <<"u","u","i","d",":","a",":",":">>,
     <<"u","u","i","d",":","a",":",":",":">>,
     <<"m","a","x","-","a","g","e",":","1","5","0","0",":",":","u","p","n","p",":","r","o","o","t","d","e","v","i","c","e">>,
     <<"u","u","i","d",":">>, <<"k",":","a",":",":","u","u","i","d",":">>,
     <<"a",":",":","u","u","i","d",":","b">>,
     <<"k",":","a",":",":","U","P","N","P",":","b">>,
     <<":","a",":",":","u","u","i","d",":","b">>}

RawTexts ==
    NumberTexts \cup LiteralTexts \cup FieldTexts
    \cup {ToDecimal(n) : n \in 0..(U8_MAX + 1)}

\* the values that follow the first one when a name is repeated
MoreValues == SeqsUpTo({<<"1">>, <<"x">>}, MaxValues - 1) \ {<<>>}

WireLists ==
    {<<>>} \cup {<<text>> : text \in RawTexts}
    \cup {<<text>> \o more : text \in RawTexts, more \in MoreValues}

HeaderKinds ==
    {"Man", "MX", "ST", "NT", "NTS", "USN", "BootID", "ConfigID", "SearchPort"}

InitWire ==
    /\ IdleReceiver /\ IdleUnicast /\ IdleIO
    /\ hpc = "received"
    /\ header \in {[name |-> kind] : kind \in HeaderKinds}
    /\ wire \in WireLists
    /\ decoded = Err("none")
    /\ shape = IdleShape
    /\ packet = <<>>
    /\ call = "idle"
    /\ result = Err([kind |-> "none"])

\* H::decode(&mut values.iter())
DecodeReceived ==
    /\ hpc = "received"
    /\ decoded' = decode(header.name, wire)
    /\ hpc' = "decoded"
    /\ UNCHANGED <<header, wire, codecVars, receiverVars, unicast, ioVars>>

\* MX::new(n) for the n whose decimal text was decoded
NewMX ==
    /\ hpc = "decoded"
    /\ header.name = "MX"
    /\ \E n \in 0..U8_MAX :
        /\ wire = <<ToDecimal(n)>>
        /\ result' = MX_new(n)
    /\ hpc' = "constructed"
    /\ UNCHANGED <<header, wire, decoded, shape, packet, call, receiverVars, unicast, ioVars>>

NextWire == DecodeReceived \/ NewMX

SpecWire == InitWire /\ [][NextWire]_vars

----------------------------------------------------------------------------
(* The receiver: one reader per socket, one hand-off queue, one consumer,   *)
(* an optional deadline.  The search and listen entry points build it.      *)

MaxDatagrams == 3       \* datagrams delivered to the receiver's sockets

NETWORK_TIMEOUT_OVERHEAD == 1
DEFAULT_UNICAST_TIMEOUT == 1 + NETWORK_TIMEOUT_OVERHEAD

\* u8 addition as a release build computes it (a debug build panics where
\* this wraps)
u8_add(a, b) == (a + b) % (U8_MAX + 1)

\* a multicast timeout without the transport overhead
multicast_timeout_NoOverhead(mx) ==
    IF mx.some THEN Ok(mx.val.n)
    ELSE Err(MissingHeader(<<"Multicast Searches Require An MX Header">>))

\* the timeout of a multicast search, in seconds
multicast_timeout(mx) ==
    IF mx.some THEN Ok(u8_add(mx.val.n, NETWORK_TIMEOUT_OVERHEAD))
    ELSE Err(MissingHeader(<<"Multicast Searches Require An MX Header">>))

\* a unicast search that had no default timeout
opt_unicast_timeout_NoDefault(mx) ==
    IF mx.some THEN Some(mx.val.n + NETWORK_TIMEOUT_OVERHEAD)
    ELSE None

\* the timeout of a unicast search, in seconds
opt_unicast_timeout(mx) ==
    IF mx.some THEN Some(u8_add(mx.val.n, NETWORK_TIMEOUT_OVERHEAD))
    ELSE Some(DEFAULT_UNICAST_TIMEOUT)

\* the deadline each entry point hands to SSDPReceiver::new
ReceiverTimeout(entry, mx) ==
    CASE entry = "unicast" -> Ok(opt_unicast_timeout(mx))
      [] entry = "multicast" ->
            IF multicast_timeout(mx).ok THEN Ok(Some(multicast_timeout(mx).val))
            ELSE multicast_timeout(mx)
      [] entry = "listen" -> Ok(None)

\* the sockets listen binds: one per address family
Sockets == {"ipv4", "ipv6"}

ResponsePacket ==
    HTTP11 \o <<SP, "2", "0", "0", SP, "O", "K">> \o CRLF \o CRLF
NotFoundPacket ==
    HTTP11 \o <<SP, "4", "0", "4", SP, "O", "K">> \o CRLF \o CRLF
NotifyPacket ==
    NOTIFY_METHOD \o <<SP>> \o STAR \o <<SP>> \o HTTP11 \o CRLF
    \o <<"H","O","S","T",":",SP,"a">> \o CRLF \o CRLF

\* what peers send: the bytes, the sender, and whether the bytes are a
\* search response
Datagrams ==
    {[bytes |-> ResponsePacket, peer |-> "device", response |-> TRUE],
     [bytes |-> NotifyPacket, peer |-> "announcer", response |-> FALSE],
     [bytes |-> NotFoundPacket, peer |-> "stranger", response |-> FALSE]}

Arrivals ==
    {a \in [Sockets -> SeqsUpTo(Datagrams, MaxDatagrams)] :
        Len(a["ipv4"]) + Len(a["ipv6"]) <= MaxDatagrams}

\* SSDPReceiver::new(sockets, deadline), called by a search or by listen
InitReceiver ==
    /\ origin \in {"unicast", "multicast", "listen"}
    /\ \E mx \in {None, Some(MX(1)), Some(MX(2))} :
        /\ ReceiverTimeout(origin, mx).ok
        /\ deadline = ReceiverTimeout(origin, mx).val
    /\ arrived \in Arrivals
    /\ taken = [s \in Sockets |-> 0]
    /\ hand = [s \in Sockets |-> None]
    /\ queue = <<>>
    /\ yielded = <<>>
    /\ now = 0
    /\ ended = FALSE
    /\ IdleUnicast /\ IdleIO
    /\ shape = IdleShape /\ packet = <<>>
    /\ call = "idle" /\ result = Err([kind |-> "none"])
    /\ hpc = "idle" /\ header = IdleHeader
    /\ wire = <<>> /\ decoded = Err("none")

\* a hand-off that put the item at the head of the queue
channel_send_AtHead(q, item) == <<item>> \o q

\* the hand-off channel: send at the tail, receive from the head
channel_send(q, item) == Append(q, item)

\* a reader's blocking receive returns the socket's next datagram
Recv(s) ==
    /\ ~hand[s].some
    /\ taken[s] < Len(arrived[s])
    /\ taken' = [taken EXCEPT ![s] = taken[s] + 1]
    /\ hand' = [hand EXCEPT ![s] =
                    Some([bytes |-> arrived[s][taken[s] + 1].bytes,
                          peer |-> arrived[s][taken[s] + 1].peer,
                          socket |-> s, nth |-> taken[s] + 1])]
    /\ UNCHANGED <<origin, arrived, queue, yielded, deadline, now, ended>>
    /\ UNCHANGED <<codecVars, headerVars, unicast, ioVars>>

\* the item a reader makes of a datagram that decodes: the message and the
\* peer address (and, for the properties, which datagram it was)
ItemOf(d, message) ==
    [message |-> message, peer |-> d.peer, socket |-> d.socket, nth |-> d.nth]

\* the reader decodes what it holds: a message goes to the queue, a failure
\* is logged and dropped; then the reader receives again
HandOff(s) ==
    /\ hand[s].some
    /\ queue' = (IF SearchResponse_from_packet(hand[s].val.bytes).ok
                 THEN channel_send(queue,
                        ItemOf(hand[s].val, SearchResponse_from_packet(hand[s].val.bytes).val))
                 ELSE queue)
    /\ hand' = [hand EXCEPT ![s] = None]
    /\ UNCHANGED <<origin, arrived, taken, yielded, deadline, now, ended>>
    /\ UNCHANGED <<codecVars, headerVars, unicast, ioVars>>

\* a second passes, until the deadline is reached
Tick ==
    /\ deadline.some
    /\ now < deadline.val
    /\ now' = now + 1
    /\ UNCHANGED <<origin, arrived, taken, hand, queue, yielded, deadline, ended>>
    /\ UNCHANGED <<codecVars, headerVars, unicast, ioVars>>

\* the consumer's next(): the head of the queue, if there is one
Yield ==
    /\ ~ended
    /\ queue # <<>>
    /\ yielded' = Append(yielded, Head(queue))
    /\ queue' = Tail(queue)
    /\ UNCHANGED <<origin, arrived, taken, hand, deadline, now, ended>>
    /\ UNCHANGED <<codecVars, headerVars, unicast, ioVars>>

\* the consumer's next(): the end, when nothing is queued and the deadline
\* has passed
End ==
    /\ ~ended
    /\ queue = <<>>
    /\ deadline.some
    /\ now >= deadline.val
    /\ ended' = TRUE
    /\ UNCHANGED <<origin, arrived, taken, hand, queue, yielded, deadline, now>>
    /\ UNCHANGED <<codecVars, headerVars, unicast, ioVars>>

NextReceiver ==
    \/ \E s \in Sockets : Recv(s)
    \/ \E s \in Sockets : HandOff(s)
    \/ Tick
    \/ Yield
    \/ End

SpecReceiver == InitReceiver /\ [][NextReceiver]_vars

\* time passes, and the consumer keeps asking for the next item; nothing is
\* assumed of the readers, which may stay blocked for ever
SpecReceiverFair ==
    SpecReceiver /\ WF_vars(Tick) /\ WF_vars(Yield) /\ WF_vars(End)

----------------------------------------------------------------------------
(* Unicast: the message is sent on the connector of every local interface   *)
(* that qualifies for the destination                                       *)

MaxInterfaces == 4      \* qualifying local interfaces

\* what SSDPMessage::send returns on each connector, in connector order
SendOutcomes == SeqsUpTo({"ok", "err"}, MaxInterfaces)

\* all_local_connectors has returned; the loop over the connectors starts
InitUnicast ==
    /\ unicast \in
            {[op |-> "SearchRequest", links |-> l, next |-> 1, result |-> "running"] :
                l \in SendOutcomes}
            \cup
            {[op |-> "SearchResponse", links |-> l, next |-> 1,
              success_count |-> 0, error_count |-> 0, result |-> "running"] :
                l \in SendOutcomes}
    /\ IdleReceiver /\ IdleIO
    /\ shape = IdleShape /\ packet = <<>>
    /\ call = "idle" /\ result = Err([kind |-> "none"])
    /\ hpc = "idle" /\ header = IdleHeader
    /\ wire = <<>> /\ decoded = Err("none")

\* SearchRequest::unicast, one turn of `self.message.send(connector, &dst_addr)?`
SearchRequest_send ==
    /\ unicast.op = "SearchRequest"
    /\ unicast.result = "running"
    /\ unicast.next <= Len(unicast.links)
    /\ unicast' = [unicast EXCEPT
                        !.next = @ + 1,
                        !.result = IF unicast.links[unicast.next] = "err"
                                   THEN "Err" ELSE "running"]
    /\ UNCHANGED <<codecVars, headerVars, receiverVars, ioVars>>

\* SearchRequest::unicast, after the loop: the receiver over the connectors
SearchRequest_return ==
    /\ unicast.op = "SearchRequest"
    /\ unicast.result = "running"
    /\ unicast.next > Len(unicast.links)
    /\ unicast' = [unicast EXCEPT !.result = "Ok"]
    /\ UNCHANGED <<codecVars, headerVars, receiverVars, ioVars>>

\* SearchResponse::unicast, one turn of its loop: count the outcome
SearchResponse_send ==
    /\ unicast.op = "SearchResponse"
    /\ unicast.result = "running"
    /\ unicast.next <= Len(unicast.links)
    /\ unicast' = [unicast EXCEPT
                        !.next = @ + 1,
                        !.success_count =
                            IF unicast.links[unicast.next] = "ok" THEN @ + 1 ELSE @,
                        !.error_count =
                            IF unicast.links[unicast.next] = "err" THEN @ + 1 ELSE @]
    /\ UNCHANGED <<codecVars, headerVars, receiverVars, ioVars>>

\* SearchResponse::unicast, after the loop
SearchResponse_return ==
    /\ unicast.op = "SearchResponse"
    /\ unicast.result = "running"
    /\ unicast.next > Len(unicast.links)
    /\ unicast' = [unicast EXCEPT
                        !.result = IF unicast.success_count = 0 /\ unicast.error_count > 0
                                   THEN "Err" ELSE "Ok"]
    /\ UNCHANGED <<codecVars, headerVars, receiverVars, ioVars>>

NextUnicast ==
    \/ SearchRequest_send
    \/ SearchRequest_return
    \/ SearchResponse_send
    \/ SearchResponse_return

SpecUnicast == InitUnicast /\ [][NextUnicast]_vars

----------------------------------------------------------------------------
(* Search setup: SearchRequest::unicast and multicast_with_config, from the *)
(* construction of the sending sockets to the deadline handed to the        *)
(* receiver                                                                 *)

MaxSearchLinks == 2

\* none of the machines above is running
IdleCore ==
    /\ IdleReceiver /\ IdleUnicast
    /\ shape = IdleShape /\ packet = <<>>
    /\ call = "idle" /\ result = Err([kind |-> "none"])
    /\ hpc = "idle" /\ header = IdleHeader
    /\ wire = <<>> /\ decoded = Err("none")

NoOp == [op |-> "none"]

\* the MX values a message can carry on the wire: none, or one decimal text
SearchWaits == (0..122) \cup {U8_MAX, U8_MAX + 1}
SearchMX == {<<>>} \cup {<<ToDecimal(n)>> : n \in SearchWaits}

\* headers().typed_get::<MX>(): nothing without the header, and nothing when
\* its value does not decode
typed_get_MX(values) ==
    IF values = <<>> THEN None
    ELSE IF MX_decode(values).ok THEN Some(MX_decode(values).val)
    ELSE None

InitSearch ==
    /\ search \in
            {[op |-> o, mx |-> m, links |-> n, pc |-> "connect",
              sockets |-> 0, sends |-> 0, result |-> Err([kind |-> "none"])] :
                o \in {"unicast", "multicast"}, m \in SearchMX, n \in 1..MaxSearchLinks}
    /\ IdleCore
    /\ sending = NoOp /\ netifs = NoOp /\ listener = NoOp
    /\ sender = NoOp /\ pbuf = NoOp /\ hmap = NoOp

\* all_local_connectors in unicast, and the same inside multicast::send: one
\* sending socket per qualifying interface
Search_connect ==
    /\ search.op \in {"unicast", "multicast"}
    /\ search.pc = "connect"
    /\ search' = [search EXCEPT !.sockets = search.links, !.pc = "send"]
    /\ UNCHANGED <<codecVars, headerVars, receiverVars, unicast,
                   sending, netifs, listener, sender, pbuf, hmap>>

\* one `message.send(connector, dst)` of the loop over the connectors
Search_send ==
    /\ search.op \in {"unicast", "multicast"}
    /\ search.pc = "send"
    /\ search.sends < search.sockets
    /\ search' = [search EXCEPT !.sends = @ + 1]
    /\ UNCHANGED <<codecVars, headerVars, receiverVars, unicast,
                   sending, netifs, listener, sender, pbuf, hmap>>

\* after the sends: the timeout is computed from the MX header and becomes
\* the deadline of the receiver, or the failure the call returns
Search_timeout ==
    /\ search.op \in {"unicast", "multicast"}
    /\ search.pc = "send"
    /\ search.sends = search.sockets
    /\ search' = [search EXCEPT
                    !.result = ReceiverTimeout(search.op, typed_get_MX(search.mx)),
                    !.pc = "done"]
    /\ UNCHANGED <<codecVars, headerVars, receiverVars, unicast,
                   sending, netifs, listener, sender, pbuf, hmap>>

NextSearch == Search_connect \/ Search_send \/ Search_timeout

SpecSearch == InitSearch /\ [][NextSearch]_vars

----------------------------------------------------------------------------

(* The packet buffer, and the HTTPU request serializer that fills it *)

MAX_PCKT_LEN == 1500

\* PacketBuffer::default
PacketBuffer_default == [buffer |-> <<>>, mmu |-> MAX_PCKT_LEN]

saturating_sub(a, b) == IF a >= b THEN a - b ELSE 0

Min(a, b) == IF a <= b THEN a ELSE b

\* a write that took the whole input whatever room was left
PacketBuffer_write_Unbounded(p, buf) ==
    [packet |-> [p EXCEPT !.buffer = @ \o buf], ret |-> Len(buf)]

\* io::Write::write for PacketBuffer: the bytes that fit are appended and
\* their count is returned
PacketBuffer_write(p, buf) ==
    [packet |-> [p EXCEPT !.buffer =
                    @ \o SubSeq(buf, 1, Min(Len(buf), saturating_sub(p.mmu, Len(p.buffer))))],
     ret |-> Min(Len(buf), saturating_sub(p.mmu, Len(p.buffer)))]

\* PacketBuffer::clear
PacketBuffer_clear(p) == [p EXCEPT !.buffer = <<>>]

\* io::Write::write_all over PacketBuffer::write: repeat until the input is
\* used up; a write that takes nothing is the error WriteZero
RECURSIVE write_all(_, _)
write_all_rest(w, buf) ==
    IF w.ret = 0 THEN [packet |-> w.packet, ok |-> FALSE]
    ELSE write_all(w.packet, SubSeq(buf, w.ret + 1, Len(buf)))

write_all(p, buf) ==
    IF buf = <<>> THEN [packet |-> p, ok |-> TRUE]
    ELSE write_all_rest(PacketBuffer_write(p, buf), buf)

\* the writes of a serializer in order, each followed by `?`
RECURSIVE write_each(_, _)
write_each_rest(w, pieces) ==
    IF ~w.ok THEN w ELSE write_each(w.packet, Tail(pieces))

write_each(p, pieces) ==
    IF pieces = <<>> THEN [packet |-> p, ok |-> TRUE]
    ELSE write_each_rest(write_all(p, Head(pieces)), pieces)

HTTPU_REQUEST_TAIL == <<SP, "*", SP>> \o HTTP11 \o CRLF
HTTPU_HOST_LINE == <<"H","O","S","T",":"," ","2","3","9",".","2","5","5",".","2","5","5",".","2","5","0",":","1","9","0","0">> \o CRLF

\* what Request::serialize writes for one header of the collection
HeaderPieces(h) == <<ToUpper(h.name) \o <<":", SP>>, h.value, CRLF>>

\* a serialize that wrote after what the buffer already held
Request_serialize_NoTruncate(request, p) ==
    write_each(p,
               <<request.method, HTTPU_REQUEST_TAIL, HTTPU_HOST_LINE>>
               \o Concat([i \in 1..Len(request.headers) |-> HeaderPieces(request.headers[i])])
               \o <<CRLF>>)

\* Request::serialize: the buffer is emptied, then the request line, the
\* Host line, one line per header and the empty line are written
Request_serialize(request, p) ==
    write_each([p EXCEPT !.buffer = <<>>],
               <<request.method, HTTPU_REQUEST_TAIL, HTTPU_HOST_LINE>>
               \o Concat([i \in 1..Len(request.headers) |-> HeaderPieces(request.headers[i])])
               \o <<CRLF>>)

\* Request::new
Request_new(headers) == [method |-> NOTIFY_METHOD, headers |-> headers]

----------------------------------------------------------------------------

(* SSDPMessage::send on a connector, and the HTTPU serializer used for a    *)
(* request to the same destination                                          *)

\* destinations as the text of their address and port
Destinations ==
    {<<"1","2","7",".","0",".","0",".","1",":","0">>,
     <<"2","3","9",".","2","5","5",".","2","5","5",".","2","5","0",":","1","9","0","0">>,
     <<"1","9","2",".","1","6","8",".","1",".","5",":","1","9","0","0">>}

\* header collections of outgoing messages: lower-case names, one value each
OutHeaderLines ==
    {[name |-> <<"n","t">>, value |-> <<"b">>],
     [name |-> <<"m","x">>, value |-> <<"5">>]}

SendHeaders ==
    {hs \in SeqsUpTo(OutHeaderLines, 2) :
        \A i, j \in 1..Len(hs) : i # j => hs[i].name # hs[j].name}

NoResult == Err([kind |-> "none"])

InitSend ==
    /\ sending \in
            {[op |-> "send", kind |-> k, headers |-> hs, dst |-> d,
              resolve |-> r, connect |-> c, pc |-> "resolve",
              connects |-> 0, stream |-> <<>>, result |-> NoResult] :
                k \in {"Notify", "Search", "Response"}, hs \in SendHeaders,
                d \in Destinations, r \in {"ok", "err"}, c \in {"ok", "err"}}
            \cup
            {[op |-> "serialize", kind |-> k, headers |-> hs, dst |-> d,
              resolve |-> "ok", connect |-> "ok", pc |-> "serialize",
              connects |-> 0, stream |-> <<>>, result |-> NoResult] :
                k \in {"Notify", "Search"}, hs \in SendHeaders, d \in Destinations}
    /\ IdleCore
    /\ search = NoOp /\ netifs = NoOp /\ listener = NoOp
    /\ sender = NoOp /\ pbuf = NoOp /\ hmap = NoOp

\* send: `let dst_sock_addr = net::addr_from_trait(dst_addr)?;`
Send_resolve ==
    /\ sending.op = "send"
    /\ sending.pc = "resolve"
    /\ sending' = IF sending.resolve = "err"
                  THEN [sending EXCEPT !.pc = "done", !.result = Err([kind |-> "IO"])]
                  ELSE [sending EXCEPT !.pc = "match"]
    /\ UNCHANGED <<codecVars, headerVars, receiverVars, unicast,
                   search, netifs, listener, sender, pbuf, hmap>>

\* send_request as the source has it: the url, the request value, a copy of
\* the headers with Content-Length, and then Ok(()); the connector is not
\* asked for a stream and nothing is written
send_request(s) == [s EXCEPT !.pc = "done", !.result = Ok(<<>>)]

\* send, the Notify and Search arms
Send_request ==
    /\ sending.op = "send"
    /\ sending.pc = "match"
    /\ sending.kind \in {"Notify", "Search"}
    /\ sending' = send_request(sending)
    /\ UNCHANGED <<codecVars, headerVars, receiverVars, unicast,
                   search, netifs, listener, sender, pbuf, hmap>>

\* send, the Response arm: `connector.connect(&dst_ip_string[..], dst_port)?`
Send_connect ==
    /\ sending.op = "send"
    /\ sending.pc = "match"
    /\ sending.kind = "Response"
    /\ sending' = IF sending.connect = "err"
                  THEN [sending EXCEPT !.pc = "done", !.result = Err([kind |-> "IO"])]
                  ELSE [sending EXCEPT !.pc = "connected", !.connects = @ + 1]
    /\ UNCHANGED <<codecVars, headerVars, receiverVars, unicast,
                   search, netifs, listener, sender, pbuf, hmap>>

\* send_response as the source has it: a copy of the headers with
\* Content-Length, the response value, and then Ok(()); nothing is written
send_response(s) == [s EXCEPT !.pc = "done", !.result = Ok(<<>>)]

Send_response ==
    /\ sending.op = "send"
    /\ sending.pc = "connected"
    /\ sending' = send_response(sending)
    /\ UNCHANGED <<codecVars, headerVars, receiverVars, unicast,
                   search, netifs, listener, sender, pbuf, hmap>>

MethodOf(kind) == IF kind = "Notify" THEN NOTIFY_METHOD ELSE SEARCH_METHOD

\* the packet of a request for the destination, made with Request::serialize
\* in a fresh PacketBuffer
Send_serialize ==
    /\ sending.op = "serialize"
    /\ sending.pc = "serialize"
    /\ sending' = [sending EXCEPT
            !.pc = "done",
            !.stream = Request_serialize(
                            [method |-> MethodOf(sending.kind), headers |-> sending.headers],
                            PacketBuffer_default).packet.buffer,
            !.result = IF Request_serialize(
                            [method |-> MethodOf(sending.kind), headers |-> sending.headers],
                            PacketBuffer_default).ok
                       THEN Ok(<<>>) ELSE Err([kind |-> "IO"])]
    /\ UNCHANGED <<codecVars, headerVars, receiverVars, unicast,
                   search, netifs, listener, sender, pbuf, hmap>>

NextSend ==
    Send_resolve \/ Send_request \/ Send_connect \/ Send_response \/ Send_serialize

SpecSend == InitSend /\ [][NextSend]_vars

----------------------------------------------------------------------------

(* Interface filtering: map_local over the addresses the host reports *)

MaxAddrs == 2

V4(a, b, c, d) == [v |-> 4, octets |-> <<a, b, c, d>>]
V6(s) == [v |-> 6, segments |-> s]

\* Ipv4Addr::is_loopback: 127.0.0.0/8
Ipv4_is_loopback(n) == n.octets[1] = 127

\* Ipv6Addr::is_loopback: ::1
Ipv6_is_loopback(n) == n.segments = <<0, 0, 0, 0, 0, 0, 0, 1>>

\* Ipv6Addr::is_unspecified: ::
Ipv6_is_unspecified(n) == n.segments = <<0, 0, 0, 0, 0, 0, 0, 0>>

\* Ipv6Addr::is_unique_local: (segments[0] & 0xfe00) == 0xfc00
Ipv6_is_unique_local(n) == (n.segments[1] \div 512) * 512 = 64512

\* is_6to4: segments[0] == 0x2002
is_6to4(n) == n.segments[1] = 8194

\* an is_not_global_v6 that also took link-local addresses
is_not_global_v6_LinkLocal(n) ==
    \/ Ipv6_is_unspecified(n)
    \/ Ipv6_is_loopback(n)
    \/ Ipv6_is_unique_local(n)
    \/ is_6to4(n)
    \/ (n.segments[1] \div 64) * 64 = 65152

is_not_global_v6(n) ==
    \/ Ipv6_is_unspecified(n)
    \/ Ipv6_is_loopback(n)
    \/ Ipv6_is_unique_local(n)
    \/ is_6to4(n)

\* the guards of the two arms of map_local's match
map_local_passes(sock) ==
    IF sock.v = 4 THEN ~Ipv4_is_loopback(sock)
    ELSE ~Ipv6_is_loopback(sock) /\ is_not_global_v6(sock)

\* addresses of every class the filter tells apart
LocalAddrs ==
    {V4(127, 0, 0, 1), V4(127, 8, 0, 1), V4(192, 168, 1, 5), V4(8, 8, 8, 8),
     V6(<<0, 0, 0, 0, 0, 0, 0, 1>>),          \* ::1
     V6(<<0, 0, 0, 0, 0, 0, 0, 0>>),          \* ::
     V6(<<64768, 0, 0, 0, 0, 0, 0, 1>>),      \* fd00::1
     V6(<<8194, 0, 0, 0, 0, 0, 0, 1>>),       \* 2002::1
     V6(<<65152, 0, 0, 0, 0, 0, 0, 1>>),      \* fe80::1
     V6(<<8193, 3512, 0, 0, 0, 0, 0, 1>>),    \* 2001:db8::1
     V6(<<65024, 0, 0, 0, 0, 0, 0, 1>>)}      \* fe00::1

\* what the closure does with an entry it is given
ClosureOutcomes == {"some", "none", "err"}

InitMapLocal ==
    /\ netifs \in
            {[op |-> "map_local",
              addrs |-> [i \in 1..Len(a) |-> [sock |-> a[i], index |-> i]],
              closure |-> f, next |-> 1, calls |-> <<>>, obj_list |-> <<>>,
              result |-> "running"] :
                a \in SeqsUpTo(LocalAddrs, MaxAddrs), f \in [1..MaxAddrs -> ClosureOutcomes]}
    /\ IdleCore
    /\ search = NoOp /\ sending = NoOp /\ listener = NoOp
    /\ sender = NoOp /\ pbuf = NoOp /\ hmap = NoOp

\* one turn of `for addr in addrs_iter` on an entry the match lets through:
\* `if let Some(x) = f(&addr)? { obj_list.push(x); }`
MapLocal_call ==
    /\ netifs.op = "map_local"
    /\ netifs.result = "running"
    /\ netifs.next <= Len(netifs.addrs)
    /\ map_local_passes(netifs.addrs[netifs.next].sock)
    /\ netifs' = [netifs EXCEPT
            !.next = @ + 1,
            !.calls = Append(@, netifs.next),
            !.obj_list = IF netifs.closure[netifs.next] = "some"
                         THEN Append(@, netifs.addrs[netifs.next]) ELSE @,
            !.result = IF netifs.closure[netifs.next] = "err" THEN "Err" ELSE @]
    /\ UNCHANGED <<codecVars, headerVars, receiverVars, unicast,
                   search, sending, listener, sender, pbuf, hmap>>

\* one turn on an entry of the arm `_ => ()`
MapLocal_skip ==
    /\ netifs.op = "map_local"
    /\ netifs.result = "running"
    /\ netifs.next <= Len(netifs.addrs)
    /\ ~map_local_passes(netifs.addrs[netifs.next].sock)
    /\ netifs' = [netifs EXCEPT !.next = @ + 1]
    /\ UNCHANGED <<codecVars, headerVars, receiverVars, unicast,
                   search, sending, listener, sender, pbuf, hmap>>

\* Ok(obj_list)
MapLocal_return ==
    /\ netifs.op = "map_local"
    /\ netifs.result = "running"
    /\ netifs.next > Len(netifs.addrs)
    /\ netifs' = [netifs EXCEPT !.result = "Ok"]
    /\ UNCHANGED <<codecVars, headerVars, receiverVars, unicast,
                   search, sending, listener, sender, pbuf, hmap>>

NextMapLocal == MapLocal_call \/ MapLocal_skip \/ MapLocal_return

SpecMapLocal == InitMapLocal /\ [][NextMapLocal]_vars

----------------------------------------------------------------------------

(* Listening: listen_with_config binds the shared sockets and joins the     *)
(* multicast group once per kept interface                                  *)

MaxListenIfaces == 3

\* addresses map_local lets through
KeptAddrs == {a \in LocalAddrs : map_local_passes(a)}

\* what the operating system answers in a turn of the loop
ListenOutcomes == {"ok", "bind_err", "join_err"}

InitListen ==
    /\ listener \in
            {[op |-> "listen",
              addrs |-> [i \in 1..Len(a) |-> [sock |-> a[i], index |-> i]],
              os |-> o, next |-> 1, ipv4_sock |-> None, ipv6_sock |-> None,
              calls |-> <<>>, result |-> "running", receiver |-> None] :
                a \in SeqsUpTo(KeptAddrs, MaxListenIfaces),
                o \in [1..MaxListenIfaces -> ListenOutcomes]}
    /\ IdleCore
    /\ search = NoOp /\ sending = NoOp /\ netifs = NoOp
    /\ sender = NoOp /\ pbuf = NoOp /\ hmap = NoOp

\* a loop that bound a socket for every interface
listen_binds_Always(sock) == TRUE

\* `if ipv4_sock.is_none()`, `if ipv6_sock.is_none()`
listen_binds(sock) == ~sock.some

Wildcard(v) == IF v = 4 THEN <<"0",".","0",".","0",".","0">> ELSE <<":",":">>

\* net::bind_reuse((wildcard, config.port)) and how it ended
BindCall(v, ok) == [fn |-> "bind_reuse", v |-> v, addr |-> Wildcard(v), ok |-> ok]

\* net::join_multicast(&sock, &addr, &mcast_ip): the socket joined on, and
\* the SocketAddrV4::new(v4, 0) or SocketAddrV6::new(v6, 0, 0, iface.index)
JoinCall(sock, iface, ok) ==
    [fn |-> "join_multicast", on |-> sock.val, ip |-> iface.sock,
     scope_id |-> IF iface.sock.v = 4 THEN 0 ELSE iface.index,
     v |-> iface.sock.v, ok |-> ok]

SockOf(l, v) == IF v = 4 THEN l.ipv4_sock ELSE l.ipv6_sock

WithSock(l, v, sock) ==
    IF v = 4 THEN [l EXCEPT !.ipv4_sock = sock] ELSE [l EXCEPT !.ipv6_sock = sock]

\* the join of a turn, on the family's socket
listen_join(l, iface, outcome) ==
    [l EXCEPT
        !.calls = Append(@, JoinCall(SockOf(l, iface.sock.v), iface, outcome # "join_err")),
        !.next = @ + 1,
        !.result = IF outcome = "join_err" THEN "Err" ELSE @]

\* one turn of `for iface in addrs`: the bind when the family has no socket
\* yet, then the join; a failure of either returns
listen_turn(l, iface, outcome) ==
    IF listen_binds(SockOf(l, iface.sock.v))
    THEN IF outcome = "bind_err"
         THEN [l EXCEPT !.calls = Append(@, BindCall(iface.sock.v, FALSE)),
                        !.result = "Err"]
         ELSE listen_join(
                WithSock([l EXCEPT !.calls = Append(@, BindCall(iface.sock.v, TRUE))],
                         iface.sock.v, Some([v |-> iface.sock.v, n |-> Len(l.calls) + 1])),
                iface, outcome)
    ELSE listen_join(l, iface, outcome)

Listen_turn ==
    /\ listener.op = "listen"
    /\ listener.result = "running"
    /\ listener.next <= Len(listener.addrs)
    /\ listener' = listen_turn(listener, listener.addrs[listener.next],
                               listener.os[listener.next])
    /\ UNCHANGED <<codecVars, headerVars, receiverVars, unicast,
                   search, sending, netifs, sender, pbuf, hmap>>

\* after the loop: the receiver over the sockets that were bound
Listen_return ==
    /\ listener.op = "listen"
    /\ listener.result = "running"
    /\ listener.next > Len(listener.addrs)
    /\ listener' = [listener EXCEPT
            !.result = "Ok",
            !.receiver = Some(SelectSeq(<<listener.ipv4_sock, listener.ipv6_sock>>,
                                        LAMBDA s : s.some))]
    /\ UNCHANGED <<codecVars, headerVars, receiverVars, unicast,
                   search, sending, netifs, sender, pbuf, hmap>>

NextListen == Listen_turn \/ Listen_return

SpecListen == InitListen /\ [][NextListen]_vars

----------------------------------------------------------------------------

(* UdpSender: writes go to its packet buffer, a flush sends the buffer as   *)
(* one datagram                                                             *)

MaxSenderCalls == 4

Fill(n) == [i \in 1..n |-> "x"]

\* what a caller hands to write: nothing, a few bytes, and nearly a packet
WriteInputs == {<<>>, <<"a">>, <<"b", "c">>, Fill(MAX_PCKT_LEN - 1)}

\* UdpSender::new
UdpSender_new(dst) ==
    [op |-> "UdpSender", dst |-> dst, buf |-> PacketBuffer_default,
     passed |-> <<>>, accepted |-> <<>>, sent |-> <<>>,
     calls |-> 0, last |-> [fn |-> "new"]]

InitSender ==
    /\ sender \in {UdpSender_new(d) : d \in Destinations}
    /\ IdleCore
    /\ search = NoOp /\ sending = NoOp /\ netifs = NoOp
    /\ listener = NoOp /\ pbuf = NoOp /\ hmap = NoOp

\* Write::write: `self.buf.write(buf)`; passed and accepted remember what
\* the caller handed over and what was taken since the last flush
UdpSender_write(s, buf) ==
    [s EXCEPT
        !.buf = PacketBuffer_write(s.buf, buf).packet,
        !.passed = @ \o buf,
        !.accepted = @ \o SubSeq(buf, 1, PacketBuffer_write(s.buf, buf).ret),
        !.calls = @ + 1,
        !.last = [fn |-> "write", ok |-> TRUE, ret |-> PacketBuffer_write(s.buf, buf).ret]]

\* a flush that kept the bytes of a failed transmission
UdpSender_flush_KeepOnError(s, ok) ==
    [s EXCEPT
        !.sent = Append(@, [to |-> s.dst, data |-> s.buf.buffer, ok |-> ok]),
        !.buf = IF ok THEN PacketBuffer_clear(s.buf) ELSE s.buf,
        !.passed = IF ok THEN <<>> ELSE @,
        !.accepted = IF ok THEN <<>> ELSE @,
        !.calls = @ + 1,
        !.last = [fn |-> "flush", ok |-> ok]]

\* Write::flush: send_to(data, dst), then clear, then the result of send_to
UdpSender_flush(s, ok) ==
    [s EXCEPT
        !.sent = Append(@, [to |-> s.dst, data |-> s.buf.buffer, ok |-> ok]),
        !.buf = PacketBuffer_clear(s.buf),
        !.passed = <<>>,
        !.accepted = <<>>,
        !.calls = @ + 1,
        !.last = [fn |-> "flush", ok |-> ok]]

\* Read::read: always the error ConnectionAborted
UdpSender_read(s) ==
    [s EXCEPT !.calls = @ + 1,
              !.last = [fn |-> "read", ok |-> FALSE, err |-> "ConnectionAborted"]]

Sender_write ==
    /\ sender.op = "UdpSender"
    /\ sender.calls < MaxSenderCalls
    /\ \E buf \in WriteInputs : sender' = UdpSender_write(sender, buf)
    /\ UNCHANGED <<codecVars, headerVars, receiverVars, unicast,
                   search, sending, netifs, listener, pbuf, hmap>>

Sender_flush ==
    /\ sender.op = "UdpSender"
    /\ sender.calls < MaxSenderCalls
    /\ \E ok \in BOOLEAN : sender' = UdpSender_flush(sender, ok)
    /\ UNCHANGED <<codecVars, headerVars, receiverVars, unicast,
                   search, sending, netifs, listener, pbuf, hmap>>

Sender_read ==
    /\ sender.op = "UdpSender"
    /\ sender.calls < MaxSenderCalls
    /\ sender' = UdpSender_read(sender)
    /\ UNCHANGED <<codecVars, headerVars, receiverVars, unicast,
                   search, sending, netifs, listener, pbuf, hmap>>

NextSender == Sender_write \/ Sender_flush \/ Sender_read

SpecSender == InitSender /\ [][NextSender]_vars

----------------------------------------------------------------------------

(* PacketBuffer under its operations, Request::serialize among them *)

MaxPacketCalls == 3

\* write_vectored: slice after slice until the room is used up
RECURSIVE write_vectored_from(_, _, _, _)
write_vectored_from(p, space, written, bufs) ==
    IF bufs = <<>> THEN [packet |-> p, ret |-> written]
    ELSE IF Min(Len(Head(bufs)), space) = space
    THEN [packet |-> [p EXCEPT !.buffer = @ \o SubSeq(Head(bufs), 1, space)],
          ret |-> written + space]
    ELSE write_vectored_from([p EXCEPT !.buffer = @ \o Head(bufs)],
                             space - Len(Head(bufs)), written + Len(Head(bufs)),
                             Tail(bufs))

PacketBuffer_write_vectored(p, bufs) ==
    write_vectored_from(p, saturating_sub(p.mmu, Len(p.buffer)), 0, bufs)

\* inputs of write: nothing, a few bytes, nearly a packet, more than a packet
PacketInputs == {<<>>, <<"a">>, <<"b", "c">>, Fill(MAX_PCKT_LEN - 1), Fill(MAX_PCKT_LEN + 1)}

VectoredInputs ==
    {<<<<"a">>, <<"b", "c">>>>, <<<<>>, Fill(MAX_PCKT_LEN - 1), <<"b", "c">>, <<"a">>>>}

\* header collections to serialize: short ones, one that fills a NOTIFY
\* packet to the last byte, and one that is a byte too long for it
LongestNotifyValue == Fill(MAX_PCKT_LEN - 55)

PacketHeaders ==
    SendHeaders
    \cup {<<[name |-> <<"n","t">>, value |-> LongestNotifyValue]>>,
          <<[name |-> <<"n","t">>, value |-> LongestNotifyValue \o <<"x">>]>>}

HttpuRequests ==
    {[method |-> m, headers |-> hs] :
        m \in {NOTIFY_METHOD, SEARCH_METHOD}, hs \in PacketHeaders}

InitPacket ==
    /\ pbuf = [op |-> "PacketBuffer", packet |-> PacketBuffer_default,
               calls |-> 0, last |-> [fn |-> "default"]]
    /\ IdleCore
    /\ search = NoOp /\ sending = NoOp /\ netifs = NoOp
    /\ listener = NoOp /\ sender = NoOp /\ hmap = NoOp

Packet_write ==
    /\ pbuf.op = "PacketBuffer"
    /\ pbuf.calls < MaxPacketCalls
    /\ \E buf \in PacketInputs :
        pbuf' = [pbuf EXCEPT
                    !.packet = PacketBuffer_write(pbuf.packet, buf).packet,
                    !.calls = @ + 1,
                    !.last = [fn |-> "write", input |-> buf,
                              ret |-> PacketBuffer_write(pbuf.packet, buf).ret]]
    /\ UNCHANGED <<codecVars, headerVars, receiverVars, unicast,
                   search, sending, netifs, listener, sender, hmap>>

Packet_write_vectored ==
    /\ pbuf.op = "PacketBuffer"
    /\ pbuf.calls < MaxPacketCalls
    /\ \E bufs \in VectoredInputs :
        pbuf' = [pbuf EXCEPT
                    !.packet = PacketBuffer_write_vectored(pbuf.packet, bufs).packet,
                    !.calls = @ + 1,
                    !.last = [fn |-> "write_vectored", input |-> Concat(bufs),
                              ret |-> PacketBuffer_write_vectored(pbuf.packet, bufs).ret]]
    /\ UNCHANGED <<codecVars, headerVars, receiverVars, unicast,
                   search, sending, netifs, listener, sender, hmap>>

Packet_clear ==
    /\ pbuf.op = "PacketBuffer"
    /\ pbuf.calls < MaxPacketCalls
    /\ pbuf' = [pbuf EXCEPT !.packet = PacketBuffer_clear(pbuf.packet),
                            !.calls = @ + 1,
                            !.last = [fn |-> "clear"]]
    /\ UNCHANGED <<codecVars, headerVars, receiverVars, unicast,
                   search, sending, netifs, listener, sender, hmap>>

Packet_serialize ==
    /\ pbuf.op = "PacketBuffer"
    /\ pbuf.calls < MaxPacketCalls
    /\ \E request \in HttpuRequests :
        pbuf' = [pbuf EXCEPT
                    !.packet = Request_serialize(request, pbuf.packet).packet,
                    !.calls = @ + 1,
                    !.last = [fn |-> "serialize", input |-> request,
                              ok |-> Request_serialize(request, pbuf.packet).ok]]
    /\ UNCHANGED <<codecVars, headerVars, receiverVars, unicast,
                   search, sending, netifs, listener, sender, hmap>>

NextPacket == Packet_write \/ Packet_write_vectored \/ Packet_clear \/ Packet_serialize

SpecPacket == InitPacket /\ [][NextPacket]_vars

----------------------------------------------------------------------------

(* Round trip: a request is serialized into a packet buffer, once or twice, *)
(* and the packet is decoded                                                *)

MaxOutHeaders == 2

LongValueLen == 64

\* header lines a collection can hold: plain values, two values of one name,
\* a Host, values with a space or a tab at either end or inside, an empty value, a
\* long value, and one that is a byte too long for a NOTIFY packet
OutLines ==
    OutHeaderLines
    \cup {[name |-> <<"n","t">>, value |-> <<"c">>],
          [name |-> HOST_NAME, value |-> <<"a">>],
          [name |-> <<"s","t">>, value |-> <<SP, "b">>],
          [name |-> <<"s","t">>, value |-> <<"b", SP>>],
          [name |-> <<"s","t">>, value |-> <<"TAB", "b">>],
          [name |-> <<"u","s","n">>, value |-> <<"b", SP, "c">>],
          [name |-> <<"u","s","n">>, value |-> <<>>],
          [name |-> <<"m","a","n">>, value |-> Fill(LongValueLen)],
          [name |-> <<"m","a","n">>, value |-> LongestNotifyValue \o <<"x">>]}

\* HeaderMap yields the values of one name next to each other
IsIterationOrder(hs) ==
    \A i, j \in 1..Len(hs) :
        (i < j /\ hs[i].name = hs[j].name) =>
            \A k \in i..j : hs[k].name = hs[i].name

OutHeaders == {hs \in SeqsUpTo(OutLines, MaxOutHeaders) : IsIterationOrder(hs)}

InitRoundTrip ==
    /\ pbuf \in
            {[op |-> "Request", request |-> [method |-> m, headers |-> hs],
              packet |-> PacketBuffer_default, pc |-> "new", ok |-> FALSE,
              once |-> <<>>, decoded |-> NoResult] :
                m \in {NOTIFY_METHOD, SEARCH_METHOD}, hs \in OutHeaders}
    /\ IdleCore
    /\ search = NoOp /\ sending = NoOp /\ netifs = NoOp
    /\ listener = NoOp /\ sender = NoOp /\ hmap = NoOp

\* request.serialize(&mut packet), the first time
RoundTrip_serialize ==
    /\ pbuf.op = "Request"
    /\ pbuf.pc = "new"
    /\ pbuf' = [pbuf EXCEPT
                    !.packet = Request_serialize(pbuf.request, pbuf.packet).packet,
                    !.once = Request_serialize(pbuf.request, pbuf.packet).packet.buffer,
                    !.ok = Request_serialize(pbuf.request, pbuf.packet).ok,
                    !.pc = "once"]
    /\ UNCHANGED <<codecVars, headerVars, receiverVars, unicast,
                   search, sending, netifs, listener, sender, hmap>>

\* request.serialize(&mut packet) again, into the same buffer
RoundTrip_again ==
    /\ pbuf.op = "Request"
    /\ pbuf.pc = "once"
    /\ pbuf' = [pbuf EXCEPT
                    !.packet = Request_serialize(pbuf.request, pbuf.packet).packet,
                    !.ok = Request_serialize(pbuf.request, pbuf.packet).ok,
                    !.pc = "twice"]
    /\ UNCHANGED <<codecVars, headerVars, receiverVars, unicast,
                   search, sending, netifs, listener, sender, hmap>>

\* SSDPMessage::from_packet(packet.as_slice()) on a packet that serialize
\* returned Ok for
RoundTrip_decode ==
    /\ pbuf.op = "Request"
    /\ pbuf.pc \in {"once", "twice"}
    /\ pbuf.ok
    /\ pbuf.decoded = NoResult
    /\ pbuf' = [pbuf EXCEPT !.decoded = from_packet(pbuf.packet.buffer)]
    /\ UNCHANGED <<codecVars, headerVars, receiverVars, unicast,
                   search, sending, netifs, listener, sender, hmap>>

NextRoundTrip == RoundTrip_serialize \/ RoundTrip_again \/ RoundTrip_decode

SpecRoundTrip == InitRoundTrip /\ [][NextRoundTrip]_vars

----------------------------------------------------------------------------

(* A message's header collection: filled by decoding a datagram, changed by *)
(* HeaderMut::set                                                           *)

MaxMapLines == 3
MaxSets == 2

\* header lines of a datagram: names in several cases, values that differ
MapLines ==
    {[name |-> <<"H","O","S","T">>, value |-> <<"a">>],
     [name |-> <<"h","o","s","t">>, value |-> <<"b">>],
     [name |-> <<"N","T">>, value |-> <<"u","u","i","d",":","b">>],
     [name |-> <<"n","t">>, value |-> <<"u","u","i","d",":","c">>],
     [name |-> <<"M","x">>, value |-> <<"7">>]}

\* the headers a caller sets
SetHeaders == {MX(5), MX(7), NT(UUID(<<"a">>)), Man}

\* H::name()
Header_name(h) ==
    CASE h.name = "MX" -> <<"m","x">>
      [] h.name = "NT" -> <<"n","t">>
      [] h.name = "Man" -> <<"m","a","n">>

\* HeaderMap::remove
HeaderMap_remove(map, key) == SelectSeq(map, LAMBDA e : e.name # key)

\* HeaderMapExt::typed_insert: the first value the header encodes is
\* inserted, further values are appended
typed_insert(map, key, values) ==
    IF values = <<>> THEN map
    ELSE HeaderMap_insert(map, key, values[1])
         \o [i \in 1..(Len(values) - 1) |-> [name |-> key, value |-> values[i + 1]]]

\* HeaderMut::set for HeaderMap: remove the name, then typed_insert
HeaderMut_set(map, h) ==
    typed_insert(HeaderMap_remove(map, Header_name(h)), Header_name(h), encode(h))

DatagramOf(lines) ==
    NOTIFY_METHOD \o <<SP, "*", SP>> \o HTTP11 \o CRLF \o RenderLines(lines) \o CRLF

InitMessage ==
    /\ hmap \in
            {[op |-> "SSDPMessage", lines |-> ls, pc |-> "datagram",
              map |-> <<>>, sets |-> 0, last |-> [fn |-> "none"]] :
                ls \in SeqsUpTo(MapLines, MaxMapLines)}
    /\ IdleCore
    /\ search = NoOp /\ sending = NoOp /\ netifs = NoOp
    /\ listener = NoOp /\ sender = NoOp /\ pbuf = NoOp

\* SSDPMessage::from_packet on the datagram
Message_decode ==
    /\ hmap.op = "SSDPMessage"
    /\ hmap.pc = "datagram"
    /\ hmap' = IF from_packet(DatagramOf(hmap.lines)).ok
               THEN [hmap EXCEPT !.pc = "message",
                                 !.map = from_packet(DatagramOf(hmap.lines)).val.headers,
                                 !.last = [fn |-> "from_packet"]]
               ELSE [hmap EXCEPT !.pc = "rejected", !.last = [fn |-> "from_packet"]]
    /\ UNCHANGED <<codecVars, headerVars, receiverVars, unicast,
                   search, sending, netifs, listener, sender, pbuf>>

\* message.set(h)
Message_set ==
    /\ hmap.op = "SSDPMessage"
    /\ hmap.pc = "message"
    /\ hmap.sets < MaxSets
    /\ \E h \in SetHeaders :
        hmap' = [hmap EXCEPT !.map = HeaderMut_set(hmap.map, h),
                             !.sets = @ + 1,
                             !.last = [fn |-> "set", header |-> h]]
    /\ UNCHANGED <<codecVars, headerVars, receiverVars, unicast,
                   search, sending, netifs, listener, sender, pbuf>>

NextMessage == Message_decode \/ Message_set

SpecMessage == InitMessage /\ [][NextMessage]_vars

----------------------------------------------------------------------------

(* The whole model *)

Init ==
    \/ InitCodec \/ InitHeader \/ InitWire \/ InitReceiver \/ InitUnicast
    \/ InitSearch \/ InitSend \/ InitMapLocal
    \/ InitListen \/ InitSender \/ InitPacket
    \/ InitRoundTrip \/ InitMessage

Next ==
    \/ NextCodec \/ NextHeader \/ NextWire \/ NextReceiver \/ NextUnicast
    \/ NextSearch \/ NextSend \/ NextMapLocal
    \/ NextListen \/ NextSender \/ NextPacket
    \/ NextRoundTrip \/ NextMessage

Spec == Init /\ [][Next]_vars

----------------------------------------------------------------------------
(* Properties of the message codec, under SpecCodec *)

Msg == shape.msg
Decoded == call = "SSDPMessage"
Whole == shape.cut = Len(Render(shape.msg))
IsRequest == shape.msg.path = "request"
ValidMethods == {NOTIFY_METHOD, SEARCH_METHOD}
GET == <<"G","E","T">>
CodeVal(code) == 100 * DigitVal(code[1]) + 10 * DigitVal(code[2]) + DigitVal(code[3])
Wrappers == {"NotifyMessage", "SearchRequest", "SearchResponse"}
WrapperKind ==
    CASE call = "NotifyMessage" -> "Notify"
      [] call = "SearchRequest" -> "Search"
      [] call = "SearchResponse" -> "Response"
      [] OTHER -> "none"

\* C1: a wrapper's from_packet succeeds exactly when the generic from_packet
\* succeeds with the wrapper's own kind, and then returns that message; so a
\* wrapper never returns another kind and at most one wrapper accepts a datagram.
C1_WrapperAcceptsOwnKindOnly ==
    call \in Wrappers =>
        LET generic == from_packet(packet) IN
        /\ result.ok <=> (generic.ok /\ generic.val.method = WrapperKind)
        /\ result.ok => (result.val = generic.val /\ result.val.method = WrapperKind)
        /\ Cardinality({w \in Wrappers :
                CASE w = "NotifyMessage" -> NotifyMessage_from_packet(packet).ok
                  [] w = "SearchRequest" -> SearchRequest_from_packet(packet).ok
                  [] w = "SearchResponse" -> SearchResponse_from_packet(packet).ok}) <= 1

\* a well-formed M-SEARCH handed to NotifyMessage::from_packet is refused
C1_Witness ==
    /\ call = "NotifyMessage"
    /\ from_packet(packet).ok
    /\ from_packet(packet).val.method = "Search"
    /\ ~result.ok
    /\ result.err = InvalidMethod(<<"SSDP Message Received Is Not A NotifyMessage">>)

C3_RequestNeedsHost ==
    (Decoded /\ Whole /\ Msg.version = HTTP11 /\ Msg.body = <<>>) =>
        /\ (IsRequest /\ Msg.method \in ValidMethods /\ Msg.target = STAR) =>
                /\ result.ok <=> HasHost(Msg.headers)
                /\ ~HasHost(Msg.headers) => result.err = MissingHeader(HOST_NAME)
        /\ (~IsRequest /\ Msg.code = <<"2","0","0">>) => result.ok

\* a request whose only header is spelled "Host" decodes
C3_Witness ==
    /\ Decoded /\ Whole /\ IsRequest
    /\ Msg.headers = <<[name |-> <<"H","o","s","t">>, value |-> <<"a">>]>>
    /\ result.ok

\* C4 as stated: every whole request with another method token fails with
\* InvalidMethod carrying that token.
C4_Original ==
    (Decoded /\ Whole /\ IsRequest /\ Msg.method \notin ValidMethods) =>
        (~result.ok /\ result.err = InvalidMethod(Msg.method))

\* C4 amended: a request with another method token never yields a message;
\* when it is otherwise valid (HTTP/1.1, Host, target "*", no body) the error
\* is InvalidMethod carrying the token; NOTIFY yields Notify and M-SEARCH
\* yields Search and nothing else yields a message.
C4_OnlyNotifyAndSearch ==
    (Decoded /\ Whole /\ IsRequest) =>
        /\ Msg.method \notin ValidMethods => ~result.ok
        /\ (Msg.method \notin ValidMethods /\ Msg.version = HTTP11
            /\ HasHost(Msg.headers) /\ Msg.target = STAR /\ Msg.body = <<>>) =>
                result.err = InvalidMethod(Msg.method)
        /\ result.ok =>
                \/ Msg.method = NOTIFY_METHOD /\ result.val.method = "Notify"
                \/ Msg.method = SEARCH_METHOD /\ result.val.method = "Search"

\* "notify * HTTP/1.1" with Host fails with InvalidMethod("notify")
C4_Witness ==
    /\ Decoded /\ Whole /\ IsRequest
    /\ Msg.method = <<"n","o","t","i","f","y">>
    /\ ~result.ok /\ result.err = InvalidMethod(Msg.method)

\* C5 as stated: every whole request with a target other than "*" fails with
\* InvalidUri carrying the target, whichever headers it has.
C5_Original ==
    (Decoded /\ Whole /\ IsRequest /\ Msg.target # STAR) =>
        (~result.ok /\ result.err = InvalidUri(Msg.target))

\* C5 amended: a request with a target other than "*" never yields a message;
\* with HTTP/1.1, a Host header and no body the error is InvalidUri carrying
\* the target, whatever the method; without Host (HTTP/1.1, no body) it is
\* MissingHeader("host").
C5_BadTargetIsInvalidUri ==
    (Decoded /\ Whole /\ IsRequest /\ Msg.target # STAR) =>
        /\ ~result.ok
        /\ (Msg.version = HTTP11 /\ Msg.body = <<>> /\ HasHost(Msg.headers)) =>
                result.err = InvalidUri(Msg.target)
        /\ (Msg.version = HTTP11 /\ Msg.body = <<>> /\ ~HasHost(Msg.headers)) =>
                result.err = MissingHeader(HOST_NAME)

\* "GET / HTTP/1.1" with Host: the target is reported, not the method
C5_Witness ==
    /\ Decoded /\ Whole /\ IsRequest
    /\ Msg.target = <<"/">> /\ Msg.method = GET /\ HasHost(Msg.headers)
    /\ ~result.ok /\ result.err = InvalidUri(<<"/">>)

\* C6: a start line and header block that parse completely (the version is
\* one the parser knows) followed by at least one byte fails with
\* InvalidBodyForMethod; for a request the error names the request's method.
C6_BodyIsRejected ==
    (Decoded /\ Whole /\ Msg.body # <<>> /\ Msg.version \in {HTTP10, HTTP11}) =>
        /\ ~result.ok
        /\ result.err.kind = "InvalidBodyForMethod"
        /\ IsRequest => result.err = InvalidBodyForMethod(Msg.method)

\* "GET / HTTP/1.0" without Host and with a body: the body is what is reported
C6_Witness ==
    /\ Decoded /\ Whole /\ IsRequest /\ Msg.body # <<>>
    /\ Msg.method = GET /\ Msg.target # STAR /\ Msg.version = HTTP10
    /\ ~HasHost(Msg.headers)
    /\ ~result.ok /\ result.err = InvalidBodyForMethod(GET)

\* C7: every strict prefix of a well-formed discovery message fails with
\* PartialHttp and no other error, and a whole message that is not
\* well-formed never fails with PartialHttp.
C7_Claim ==
    Decoded =>
        /\ (WellFormed(Msg) /\ shape.cut < Len(Render(Msg))) =>
                (~result.ok /\ result.err = PartialHttp)
        /\ (Whole /\ ~WellFormed(Msg)) => (result.ok \/ result.err # PartialHttp)

\* C8: a whole HTTP/1.1 response without body decodes, to kind Response,
\* exactly when its status code is 200, and fails with ResponseCode(c) for
\* any other code c; bytes that start with "HTTP/1" never decode to Notify or
\* Search, and no other bytes decode to Response.
C8_ResponsePath ==
    Decoded =>
        /\ (Whole /\ ~IsRequest /\ Msg.version = HTTP11 /\ Msg.body = <<>>) =>
                /\ result.ok <=> Msg.code = <<"2","0","0">>
                /\ result.ok => result.val.method = "Response"
                /\ ~result.ok => result.err = ResponseCode(CodeVal(Msg.code))
        /\ (result.ok /\ StartsWith(packet, HTTP1)) => result.val.method = "Response"
        /\ (result.ok /\ ~StartsWith(packet, HTTP1)) => result.val.method # "Response"

\* "HTTP/1.1 404 OK" fails with ResponseCode(404)
C8_Witness ==
    /\ Decoded /\ Whole /\ ~IsRequest
    /\ ~result.ok /\ result.err = ResponseCode(404)

----------------------------------------------------------------------------
(* Properties of the header codecs, under SpecHeader *)

NumericAndLiteral == {"MX", "BootID", "ConfigID", "SearchPort", "NTS", "Man"}
FieldHeaders == {"NT", "ST", "USN"}

\* the header's own invariant on its number
InRange(h) ==
    CASE h.name = "MX" -> h.n >= 1 /\ h.n <= 120
      [] h.name \in {"BootID", "ConfigID"} -> h.n >= 0 /\ h.n <= 2147483647
      [] h.name = "SearchPort" -> h.n >= 49152 /\ h.n <= 65535
      [] OTHER -> TRUE

\* C9: for MX(1..120), BootID and ConfigID(0..2147483647),
\* SearchPort(49152..65535), every NTS variant and Man, encode produces
\* exactly one value and decode of it returns the same header.
C9_NumericRoundTrip ==
    (header.name \in NumericAndLiteral /\ InRange(header)) =>
        /\ hpc # "panicked"
        /\ hpc \in {"encoded", "decoded"} => Len(wire) = 1
        /\ hpc = "decoded" => decoded = Ok(header)

\* MX(120), the largest wait, comes back from "120"
C9_Witness ==
    /\ hpc = "decoded"
    /\ header = MX(120)
    /\ wire = <<<<"1","2","0">>>>
    /\ decoded = Ok(MX(120))

\* the tokens of a header: key and payload non-empty, legal header bytes
TokensOf(h) ==
    CASE h.name = "NT" -> {h.field}
      [] h.name = "ST" -> IF h.all THEN {} ELSE {h.field.val}
      [] h.name = "USN" -> {h.first} \cup (IF h.second.some THEN {h.second.val} ELSE {})
      [] OTHER -> {}

TokenValid(t) ==
    /\ t.value # <<>>
    /\ t.tag = "Unknown" => t.key # <<>>
    /\ \A i \in 1..Len(t.value) : t.value[i] \notin {CR, LF}

\* C10: for every NT, ST and USN whose tokens have non-empty key and payload
\* (payloads with ':' or '::' or a final ':', and Unknown tokens keyed "uuid",
\* "urn", "upnp" or "ssdp" included), decode of the encoded value succeeds
\* and returns the same header.
C10_Claim ==
    (header.name \in FieldHeaders /\ \A t \in TokensOf(header) : TokenValid(t)) =>
        /\ hpc # "panicked"
        /\ hpc = "decoded" => decoded = Ok(header)

----------------------------------------------------------------------------
(* Properties of decoding received values, under SpecWire *)

\* decode has run on the received values
Received == hpc \in {"decoded", "constructed"}
Kind == header.name

\* C11: for every header kind, decode fails when there is no value, and
\* fails when there are two or more values, whatever the first value is.
C11_Claim ==
    Received => (Len(wire) # 1 => ~decoded.ok)

\* the positions of the colons of a value
Colons(v) == {i \in 1..Len(v) : v[i] = ":"}

\* a value splits at colon i when i is its first colon and neither side of
\* it is empty
SplitsAt(v, i) ==
    /\ i \in Colons(v)
    /\ \A j \in Colons(v) : i <= j
    /\ i > 1 /\ i < Len(v)

\* the token a value gives when split at colon i
TokenAt(v, i) ==
    LET prefix == SubSeq(v, 1, i - 1)
        remainder == SubSeq(v, i + 1, Len(v)) IN
    CASE ToLower(prefix) = <<"u","p","n","p">> -> UPnP(remainder)
      [] ToLower(prefix) = <<"u","r","n">> -> URN(remainder)
      [] ToLower(prefix) = <<"u","u","i","d">> -> UUID(remainder)
      [] OTHER -> Unknown(prefix, remainder)

\* the token of a decoded NT or ST(Target)
TokenOf(h) == IF h.name = "NT" THEN h.field ELSE h.field.val

\* C12: NT and ST (other than "ssdp:all") decode a single value by the
\* FieldToken rule: success exactly when the value has a colon and both the
\* prefix before the first colon and the remainder after it are non-empty;
\* the prefix, compared without case, selects UPnP, URN or UUID, any other
\* prefix gives Unknown(prefix, remainder); later colons stay in the payload.
C12_FieldTokenRule ==
    (Received /\ Kind \in {"NT", "ST"} /\ Len(wire) = 1 /\ wire[1] # ST_ALL_VALUE) =>
        /\ decoded.ok <=> \E i \in 1..Len(wire[1]) : SplitsAt(wire[1], i)
        /\ \A i \in 1..Len(wire[1]) :
                SplitsAt(wire[1], i) =>
                    /\ decoded.ok
                    /\ decoded.val.name = Kind
                    /\ TokenOf(decoded.val) = TokenAt(wire[1], i)
        /\ wire[1] = <<"u","u","i","d",":",":","a">> =>
                TokenOf(decoded.val) = UUID(<<":","a">>)

\* "max-age:1500::upnp:rootdevice" decodes to NT(Unknown("max-age",
\* "1500::upnp:rootdevice"))
C12_Witness ==
    /\ Received /\ Kind = "NT"
    /\ decoded.ok
    /\ decoded.val.field.tag = "Unknown"
    /\ decoded.val.field.key = <<"m","a","x","-","a","g","e">>
    /\ Len(decoded.val.field.value) = 21
    /\ Colons(decoded.val.field.value) = {5, 6, 11}

\* a value is a FieldToken when it splits at some colon
IsToken(v) == \E i \in 1..Len(v) : SplitsAt(v, i)

\* the position of the first "::" of a value, 0 when it has none
FirstDouble(v) ==
    IF \E i \in 1..(Len(v) - 1) : v[i] = ":" /\ v[i + 1] = ":"
    THEN CHOOSE i \in 1..(Len(v) - 1) :
            /\ v[i] = ":" /\ v[i + 1] = ":"
            /\ \A j \in 1..(i - 1) : ~(v[j] = ":" /\ v[j + 1] = ":")
    ELSE 0

\* a text without its final colon, if it has one
Stripped(x) ==
    IF x # <<>> /\ x[Len(x)] = ":" THEN SubSeq(x, 1, Len(x) - 1) ELSE x

\* the two partitions of a USN value
FirstPartition(v) ==
    IF FirstDouble(v) = 0 THEN Stripped(Stripped(v))
    ELSE Stripped(Stripped(SubSeq(v, 1, FirstDouble(v) - 1)))
SecondPartition(v) ==
    IF FirstDouble(v) = 0 THEN <<>>
    ELSE SubSeq(v, FirstDouble(v) + 2, Len(v))

\* C13: USN decode of a single value succeeds exactly when the first
\* partition (the text before the first "::", up to two final colons
\* stripped) is a FieldToken and the second partition (the text after it) is
\* empty or a FieldToken; a non-empty second partition that is no FieldToken
\* is rejected; "", ":", "::" and "uuid:::" are rejected.
C13_Claim ==
    (Received /\ Kind = "USN" /\ Len(wire) = 1) =>
        /\ decoded.ok <=>
                /\ IsToken(FirstPartition(wire[1]))
                /\ SecondPartition(wire[1]) = <<>> \/ IsToken(SecondPartition(wire[1]))
        /\ decoded.ok => (decoded.val.second.some <=> SecondPartition(wire[1]) # <<>>)
        /\ wire[1] \in {<<>>, <<":">>, <<":",":">>, <<"u","u","i","d",":",":",":">>} =>
                ~decoded.ok

(* Decimal texts, as the numeric properties read them: an optional sign,   *)
(* then one or more decimal digits                                          *)

Signed(t) == t # <<>> /\ t[1] \in {"+", "-"}
DigitsOf(t) == IF Signed(t) THEN Tail(t) ELSE t
IsDecimalText(t) ==
    DigitsOf(t) # <<>> /\ \A i \in 1..Len(DigitsOf(t)) : DigitsOf(t)[i] \in Digit

\* digits without their leading zeros (none left for zero)
RECURSIVE Significant(_)
Significant(d) ==
    IF d # <<>> /\ d[1] = "0" THEN Significant(Tail(d)) ELSE d

\* a <= b for digit strings of one length
RECURSIVE LexLeq(_, _)
LexLeq(a, b) ==
    IF a = <<>> THEN TRUE
    ELSE IF DigitVal(a[1]) # DigitVal(b[1]) THEN DigitVal(a[1]) < DigitVal(b[1])
    ELSE LexLeq(Tail(a), Tail(b))

\* the magnitude of a decimal text is at most k
MagnitudeAtMost(t, k) ==
    \/ Len(Significant(DigitsOf(t))) < Len(ToDecimal(k))
    \/ /\ Len(Significant(DigitsOf(t))) = Len(ToDecimal(k))
       /\ LexLeq(Significant(DigitsOf(t)), ToDecimal(k))

RECURSIVE NatOf(_)
NatOf(d) ==
    IF d = <<>> THEN 0
    ELSE NatOf(SubSeq(d, 1, Len(d) - 1)) * 10 + DigitVal(d[Len(d)])

\* t is a decimal text of the integer n (of magnitude within 32 bits)
Denotes(t, n) ==
    /\ IsDecimalText(t)
    /\ MagnitudeAtMost(t, I32_MAX)
    /\ n = (IF t[1] = "-" THEN 0 - NatOf(Significant(DigitsOf(t)))
            ELSE NatOf(Significant(DigitsOf(t))))

\* C14: MX decode accepts a single value exactly when it is a decimal text
\* of an n in 1..120, and returns MX(n); 0, 121, 256, numbers beyond 32 bits,
\* "-5" and "0.5" are rejected; MX::new(n) succeeds for exactly the n whose
\* decimal text decodes.
C14_MXRange ==
    (Received /\ Kind = "MX" /\ Len(wire) = 1) =>
        /\ decoded.ok <=> \E n \in 1..120 : Denotes(wire[1], n)
        /\ \A n \in 1..120 : Denotes(wire[1], n) => decoded = Ok(MX(n))
        /\ wire[1] \in {<<"0">>, <<"1","2","1">>, <<"2","5","6">>,
                        <<"4","2","9","4","9","6","7","2","9","7">>,
                        <<"-","5">>, <<"0",".","5">>} => ~decoded.ok
        /\ hpc = "constructed" =>
                /\ result.ok <=> decoded.ok
                /\ result.ok => result.val = decoded.val

\* "120" decodes to MX(120) and MX::new(120) gives the same header
C14_Witness ==
    /\ hpc = "constructed"
    /\ wire = <<<<"1","2","0">>>>
    /\ decoded = Ok(MX(120))
    /\ result = Ok(MX(120))

\* C15: BootID and ConfigID decode accept a single value exactly when it is
\* a decimal text of an n in 0..2147483647, and return the header of n: "0",
\* "2147483647" are accepted, "-0" gives the header of "0", leading zeros
\* give the header of the unpadded text; 2147483648 and above, negative
\* values and non-numeric texts are rejected; the decoded number never
\* exceeds 2147483647.
C15_IdRange ==
    (Received /\ Kind \in {"BootID", "ConfigID"} /\ Len(wire) = 1) =>
        /\ decoded.ok <=>
                /\ IsDecimalText(wire[1])
                /\ MagnitudeAtMost(wire[1], I32_MAX)
                /\ wire[1][1] = "-" => Significant(DigitsOf(wire[1])) = <<>>
        /\ decoded.ok =>
                /\ decoded.val.name = Kind
                /\ Denotes(wire[1], decoded.val.n) \/ Denotes(wire[1], 0 - decoded.val.n)
                /\ decoded.val.n >= 0 /\ decoded.val.n <= 2147483647
        /\ wire[1] \in {<<"0">>, <<"-","0">>} => decoded.ok /\ decoded.val.n = 0
        /\ wire[1] = <<"0","0","7">> => decoded.ok /\ decoded.val.n = 7
        /\ wire[1] \in {<<"2","1","4","7","4","8","3","6","4","7">>,
                        <<"0","2","1","4","7","4","8","3","6","4","7">>} =>
                decoded.ok /\ decoded.val.n = 2147483647
        /\ wire[1] \in {<<"2","1","4","7","4","8","3","6","4","8">>,
                        <<"-","1">>, <<"-","2","1","4","7","4","8","3","6","4","8">>,
                        <<"a","b","c">>, <<>>} => ~decoded.ok

\* "-0" decodes to ConfigID(0)
C15_Witness ==
    /\ Received /\ Kind = "ConfigID"
    /\ wire = <<<<"-","0">>>>
    /\ decoded = Ok(ConfigID(0))

\* C16: SearchPort decode accepts a single value exactly when it is a
\* decimal text of an n in 49152..65535, and returns SearchPort(n); 49151
\* and below, 65536 and above (no wrap-around modulo 65536), negative
\* literals and "49151a" are rejected.
C16_PortRange ==
    (Received /\ Kind = "SearchPort" /\ Len(wire) = 1) =>
        /\ decoded.ok <=>
                /\ IsDecimalText(wire[1])
                /\ MagnitudeAtMost(wire[1], 65535)
                /\ ~MagnitudeAtMost(wire[1], 49151)
                /\ wire[1][1] # "-"
        /\ decoded.ok =>
                /\ decoded.val.name = "SearchPort"
                /\ Denotes(wire[1], decoded.val.n)
                /\ decoded.val.n >= 49152 /\ decoded.val.n <= 65535
        /\ wire[1] \in {<<"4","9","1","5","1">>, <<"6","5","5","3","6">>,
                        <<"1","1","4","6","8","8">>, <<"-","4","9","1","5","2">>,
                        <<"4","9","1","5","1","a">>, <<"0">>} => ~decoded.ok

\* "65535", the largest port, decodes to SearchPort(65535)
C16_Witness ==
    /\ Received /\ Kind = "SearchPort"
    /\ wire = <<<<"6","5","5","3","5">>>>
    /\ decoded = Ok(SearchPort(65535))

----------------------------------------------------------------------------
(* Properties of the receiver, under SpecReceiver and SpecReceiverFair *)

\* what has left the readers, in the order the consumer sees it
Delivered == yielded \o queue

\* how many delivered items come from the nth datagram of socket s
Copies(s, nth) ==
    Cardinality({i \in 1..Len(Delivered) :
                    Delivered[i].socket = s /\ Delivered[i].nth = nth})

\* the reader of socket s has received and handled its nth datagram
Handled(s, nth) ==
    nth <= taken[s] /\ ~(hand[s].some /\ hand[s].val.nth = nth)

Elapsed == deadline.some /\ now >= deadline.val

\* C17: a datagram that is a search response gives exactly one item, the
\* decoded message with the sender's address, once its reader has handled
\* it; a datagram that fails to decode gives no item, is never an item of
\* the sequence, and never ends it (only the deadline does), so a response
\* that follows a malformed datagram is still delivered.
C17_OneItemPerDecodedDatagram ==
    /\ \A s \in Sockets : \A nth \in 1..Len(arrived[s]) :
            Copies(s, nth) =
                (IF arrived[s][nth].response /\ Handled(s, nth) THEN 1 ELSE 0)
    /\ \A i \in 1..Len(Delivered) :
            /\ Delivered[i].message.method = "Response"
            /\ Delivered[i].peer = arrived[Delivered[i].socket][Delivered[i].nth].peer
    /\ ended => Elapsed

\* a NOTIFY arrives first and is dropped; the response that arrives after it
\* on the same socket is yielded
C17_Witness ==
    /\ ~ended
    /\ Len(arrived["ipv4"]) = 2
    /\ arrived["ipv4"][1].peer = "announcer"
    /\ arrived["ipv4"][2].response
    /\ taken["ipv4"] = 2
    /\ Len(yielded) = 1
    /\ yielded[1].socket = "ipv4" /\ yielded[1].nth = 2
    /\ yielded[1].peer = "device"

\* the receiver was built by a search, which always sets a deadline
FromSearch == origin \in {"unicast", "multicast"}

\* C18: the sequence of a receiver built by a search eventually ends, with
\* the sockets open, whatever the peers send or do not send, and with no
\* assumption that a reader ever returns from its receive or hands anything
\* over: time passing and the consumer asking are enough.
C18_SearchSequenceEnds == FromSearch ~> ended

\* no peer ever answers, both readers are blocked in receive, and the
\* sequence of a multicast search has ended with nothing yielded
C18_Witness ==
    /\ origin = "multicast"
    /\ ended
    /\ yielded = <<>>
    /\ \A s \in Sockets : arrived[s] = <<>> /\ ~hand[s].some

\* C19: items that come from one socket are delivered in the order their
\* datagrams arrived on it, whatever the interleaving of the readers.
C19_PerSocketOrder ==
    \A i \in 1..Len(Delivered) : \A j \in 1..Len(Delivered) :
        (i < j /\ Delivered[i].socket = Delivered[j].socket) =>
            Delivered[i].nth < Delivered[j].nth

\* two responses of one socket yielded in their order of arrival, with a
\* response of the other socket yielded between them
C19_Witness ==
    /\ Len(yielded) = 3
    /\ yielded[1].socket = "ipv4" /\ yielded[1].nth = 1
    /\ yielded[2].socket = "ipv6"
    /\ yielded[3].socket = "ipv4" /\ yielded[3].nth = 2

----------------------------------------------------------------------------
(* Properties of unicast, under SpecUnicast *)

Returned == unicast.result \in {"Ok", "Err"}
Attempts == unicast.next - 1

\* C20: when SearchRequest::unicast or SearchResponse::unicast returns, a
\* send was attempted on every qualifying interface, and the call failed
\* exactly when there was at least one attempt and every attempt failed.
C20_Claim ==
    Returned =>
        /\ Attempts = Len(unicast.links)
        /\ unicast.result = "Err" <=>
                /\ Len(unicast.links) >= 1
                /\ \A i \in 1..Len(unicast.links) : unicast.links[i] = "err"

----------------------------------------------------------------------------
(* Properties of search setup, under SpecSearch *)

SearchDone == search.op \in {"unicast", "multicast"} /\ search.pc = "done"

C29_Claim ==
    (/\ SearchDone
     /\ search.op = "multicast"
     /\ search.mx = <<>>
     /\ ~search.result.ok) =>
        /\ search.sockets = 0
        /\ search.sends = 0

----------------------------------------------------------------------------
(* Properties of sending, under SpecSend *)

Sent == sending.op = "send" /\ sending.pc = "done" /\ sending.result.ok

StartLineOf(kind) ==
    CASE kind = "Notify" -> NOTIFY_METHOD \o <<SP, "*", SP>> \o HTTP11
      [] kind = "Search" -> SEARCH_METHOD \o <<SP, "*", SP>> \o HTTP11
      [] kind = "Response" -> HTTP11 \o <<SP, "2", "0", "0", SP, "O", "K">>

\* C22: a successful SSDPMessage::send has written the message onto the
\* stream of the connector: the stream is not empty and its bytes begin with
\* the start line of the message's kind.
C22_Claim ==
    Sent =>
        /\ sending.stream # <<>>
        /\ StartsWith(sending.stream, StartLineOf(sending.kind))

\* the values of the Host headers of a request datagram, in order
HostValuesOf(p) ==
    IF p.st # "Complete" THEN <<>>
    ELSE SelectSeq([i \in 1..Len(p.headers) |->
                        IF ToLower(p.headers[i].name) = HOST_NAME
                        THEN <<p.headers[i].value>> ELSE <<>>],
                   LAMBDA v : v # <<>>)

\* C23: every request that went out carries exactly one Host header, whose
\* value is the address and port of its destination, whether it was sent by
\* SSDPMessage::send or made by the HTTPU request serializer.
C23_Claim ==
    (/\ sending.op \in {"send", "serialize"}
     /\ sending.pc = "done"
     /\ sending.result.ok
     /\ sending.kind \in {"Notify", "Search"}) =>
        HostValuesOf(parse_request(sending.stream, FallbackHeaderSlots))
            = <<<<sending.dst>>>>

----------------------------------------------------------------------------
(* Properties of interface filtering, under SpecMapLocal *)

\* the policy in words: an IPv4 address unless it is in 127.0.0.0/8; an IPv6
\* address that is not ::1 and is ::, in fc00::/7 or in 2002::/16
PolicyKeeps(sock) ==
    IF sock.v = 4 THEN sock.octets[1] # 127
    ELSE /\ sock.segments # <<0, 0, 0, 0, 0, 0, 0, 1>>
         /\ \/ sock.segments = <<0, 0, 0, 0, 0, 0, 0, 0>>
            \/ sock.segments[1] \in 64512..65023
            \/ sock.segments[1] = 8194

\* the positions of the kept entries among the first n, in discovery order
RECURSIVE KeptUpTo(_, _)
KeptUpTo(addrs, n) ==
    IF n = 0 THEN <<>>
    ELSE IF PolicyKeeps(addrs[n].sock) THEN Append(KeptUpTo(addrs, n - 1), n)
    ELSE KeptUpTo(addrs, n - 1)

----------------------------------------------------------------------------
(* Properties of listening, under SpecListen *)

Binds(v) == SelectSeq(listener.calls, LAMBDA c : c.fn = "bind_reuse" /\ c.v = v)
Joins == SelectSeq(listener.calls, LAMBDA c : c.fn = "join_multicast")
FamilyHas(v) == \E i \in 1..Len(listener.addrs) : listener.addrs[i].sock.v = v

----------------------------------------------------------------------------
(* Properties of the sender, under SpecSender *)

Called(fn) ==
    /\ sender.op = "UdpSender"
    /\ sender'.calls = sender.calls + 1
    /\ sender'.last.fn = fn

\* a flush sends one datagram with the given bytes to the destination and
\* leaves the buffer empty; a read fails and changes nothing; a write sends
\* nothing
SenderContract(data) ==
    /\ Called("flush") =>
            /\ Len(sender'.sent) = Len(sender.sent) + 1
            /\ SubSeq(sender'.sent, 1, Len(sender.sent)) = sender.sent
            /\ sender'.sent[Len(sender'.sent)].to = sender.dst
            /\ sender'.sent[Len(sender'.sent)].data = data
            /\ sender'.buf.buffer = <<>>
    /\ Called("read") =>
            /\ ~sender'.last.ok
            /\ sender'.sent = sender.sent
            /\ sender'.buf = sender.buf
    /\ Called("write") => sender'.sent = sender.sent

\* C26 as stated: each flush transmits one datagram to the fixed destination
\* made of all bytes passed to write since the previous flush, in order, and
\* leaves the buffer empty whatever the outcome; a read always fails and
\* neither transmits nor changes the buffer.
C26_Claim == [][SenderContract(sender.passed)]_vars

\* C26 amended: the datagram of a flush is made of the bytes write took
\* since the previous flush, that is of the first `returned count` bytes of
\* each write, in order; the rest of the statement as it is.
C26_FlushSendsAccepted == [][SenderContract(sender.accepted)]_vars

\* a failed flush of "a", then a flush of "bc" alone
C26_Witness ==
    /\ sender.op = "UdpSender"
    /\ Len(sender.sent) = 2
    /\ sender.sent[1].data = <<"a">> /\ ~sender.sent[1].ok
    /\ sender.sent[2].data = <<"b", "c">> /\ sender.sent[2].ok
    /\ sender.buf.buffer = <<>>

----------------------------------------------------------------------------
(* Properties of the packet buffer, under SpecPacket *)

PacketCalled(fn) ==
    /\ pbuf.op = "PacketBuffer"
    /\ pbuf'.calls = pbuf.calls + 1
    /\ pbuf'.last.fn = fn

\* the text of a request: request line, Host line, header lines, empty line
TextOf(request) ==
    request.method \o <<SP, "*", SP>> \o HTTP11 \o CRLF
    \o HTTPU_HOST_LINE
    \o RenderLines([i \in 1..Len(request.headers) |->
                        [name |-> ToUpper(request.headers[i].name),
                         value |-> request.headers[i].value]])
    \o CRLF

\* how many bytes a write of n bytes may add to a buffer of length len
Room(len, n) == IF n <= 1500 - len THEN n ELSE 1500 - len

\* C30: the buffer never holds more than 1500 bytes; a write or
\* write_vectored appends the first min(len(input), 1500 - length) bytes of
\* its input and returns that count, so on a full buffer it appends nothing
\* and returns 0; a serialize of a request that does not fit fails, and a
\* serialize that succeeds leaves the whole request in the buffer.
C30_PacketLimit ==
    [][/\ pbuf'.op = "PacketBuffer" => Len(pbuf'.packet.buffer) <= 1500
       /\ (PacketCalled("write") \/ PacketCalled("write_vectored")) =>
            /\ pbuf'.last.ret = Room(Len(pbuf.packet.buffer), Len(pbuf'.last.input))
            /\ pbuf'.packet.buffer =
                    pbuf.packet.buffer \o SubSeq(pbuf'.last.input, 1, pbuf'.last.ret)
            /\ Len(pbuf.packet.buffer) = 1500 =>
                    (pbuf'.last.ret = 0 /\ pbuf'.packet.buffer = pbuf.packet.buffer)
       /\ PacketCalled("serialize") =>
            /\ Len(TextOf(pbuf'.last.input)) > 1500 => ~pbuf'.last.ok
            /\ pbuf'.last.ok => pbuf'.packet.buffer = TextOf(pbuf'.last.input)
      ]_vars

\* a write of two bytes to a full buffer returned 0
C30_Witness ==
    /\ pbuf.op = "PacketBuffer"
    /\ Len(pbuf.packet.buffer) = 1500
    /\ pbuf.last.fn = "write"
    /\ pbuf.last.input = <<"b", "c">>
    /\ pbuf.last.ret = 0

----------------------------------------------------------------------------
(* Properties of the round trip, under SpecRoundTrip *)

\* a packet that held the whole request has been decoded
RoundTripped == pbuf.op = "Request" /\ pbuf.ok /\ pbuf.decoded # NoResult

PairsOf(hs) == {hs[i] : i \in 1..Len(hs)}

HasName(hs, name) == \E i \in 1..Len(hs) : hs[i].name = name

\* the original headers, and the Host the serializer adds when they have none
WithHost(hs) ==
    PairsOf(hs) \cup
        IF HasName(hs, HOST_NAME) THEN {}
        ELSE {[name |-> HOST_NAME,
               value |-> SubSeq(HTTPU_HOST_LINE, 7, Len(HTTPU_HOST_LINE) - 2)]}

\* the decoded message is of the request's kind and holds the original
\* headers and the Host, and nothing else
SameMessage ==
    /\ pbuf.decoded.ok
    /\ pbuf.decoded.val.method =
            (IF pbuf.request.method = NOTIFY_METHOD THEN "Notify" ELSE "Search")
    /\ PairsOf(pbuf.decoded.val.headers) = WithHost(pbuf.request.headers)

\* a second serialize into the same buffer gave the bytes of the first
SameBytesTwice == (pbuf.op = "Request" /\ pbuf.pc = "twice") => pbuf.packet.buffer = pbuf.once

\* C27 as stated: for NOTIFY and M-SEARCH and every header collection whose
\* serialized form fits in one packet, the serialized bytes decode to a
\* message of the same kind with every original header and value plus the
\* Host header and nothing else; serializing twice into the same buffer
\* gives the bytes of serializing once.
C27_Claim ==
    /\ RoundTripped => SameMessage
    /\ SameBytesTwice

IsBlank(b) == b = SP \/ b = "TAB"

\* one value per name, and no value begins or ends with a space or a tab
PlainHeaders(hs) ==
    /\ \A i, j \in 1..Len(hs) : hs[i].name = hs[j].name => i = j
    /\ \A i \in 1..Len(hs) :
            hs[i].value # <<>> =>
                /\ ~IsBlank(hs[i].value[1])
                /\ ~IsBlank(hs[i].value[Len(hs[i].value)])

\* C27 amended: the same, for header collections that hold one value per
\* name and no value that begins or ends with a space or a tab.
C27_RoundTripOfPlainHeaders ==
    /\ (RoundTripped /\ PlainHeaders(pbuf.request.headers)) => SameMessage
    /\ SameBytesTwice

\* an M-SEARCH with two headers, serialized twice and decoded
C27_Witness ==
    /\ RoundTripped
    /\ pbuf.pc = "twice"
    /\ pbuf.request.method = SEARCH_METHOD
    /\ Len(pbuf.request.headers) = 2
    /\ PlainHeaders(pbuf.request.headers)
    /\ SameMessage

----------------------------------------------------------------------------
(* Properties of the header collection, under SpecMessage *)

\* no two entries have the same name, whatever the case
OnePerName(map) ==
    \A i, j \in 1..Len(map) : ToLower(map[i].name) = ToLower(map[j].name) => i = j

\* the value of the last line of that name, whatever the case; the lines
\* are known to hold one
LastValue(lines, name) ==
    lines[CHOOSE i \in 1..Len(lines) :
            /\ ToLower(lines[i].name) = name
            /\ \A j \in (i + 1)..Len(lines) : ToLower(lines[j].name) # name].value

\* the collection a datagram's lines decode to
DecodedFrom(lines) ==
    {[name |-> ToLower(lines[i].name), value |-> LastValue(lines, ToLower(lines[i].name))] :
        i \in 1..Len(lines)}

\* the step was message.set(h) on a collection that became `after`
SetEffect(map, h, after) ==
    /\ encode(h) # <<>>
    /\ [name |-> Header_name(h), value |-> encode(h)[1]] \in PairsOf(after)
    /\ \A e \in PairsOf(after) : e.name = Header_name(h) => e.value = encode(h)[1]
    /\ {e \in PairsOf(after) : e.name # Header_name(h)}
            = {e \in PairsOf(map) : e.name # Header_name(h)}

\* C28: a decoded message's collection, after any sets, holds at most one
\* value per name without regard to case; decoding keeps the value of the
\* last line of a repeated name; set(H) gives H's name the new value and
\* leaves every other header as it was; a second set of the same value
\* changes nothing.
C28_OneValuePerName ==
    [][hmap'.op = "SSDPMessage" =>
        /\ OnePerName(hmap'.map)
        /\ (hmap.pc = "datagram" /\ hmap'.pc = "message") =>
                PairsOf(hmap'.map) = DecodedFrom(hmap.lines)
        /\ hmap'.sets = hmap.sets + 1 =>
                /\ SetEffect(hmap.map, hmap'.last.header, hmap'.map)
                /\ (hmap.last.fn = "set" /\ hmap.last.header = hmap'.last.header) =>
                        hmap'.map = hmap.map
      ]_vars

\* a datagram with HOST, host and NT was decoded, and two sets were made,
\* the last one of NT
C28_Witness ==
    /\ hmap.op = "SSDPMessage"
    /\ hmap.pc = "message"
    /\ Len(hmap.lines) = 3
    /\ hmap.lines[1].name = <<"H","O","S","T">>
    /\ hmap.lines[2].name = <<"h","o","s","t">>
    /\ hmap.lines[3].name = <<"N","T">>
    /\ hmap.sets = 2
    /\ hmap.last.header = NT(UUID(<<"a">>))
    /\ PairsOf(hmap.map) =
            {[name |-> HOST_NAME, value |-> <<"b">>],
             [name |-> <<"n","t">>, value |-> <<"u","u","i","d",":","a">>]}

====
